---- MODULE Spec2Model ----
(***************************************************************************)
(* Model of one load-test run of primes.api.test_executor: the run state   *)
(* record, the run executor (execute_test and its three modes), the        *)
(* request tasks of the distribution mode, stop_test and the parsing of    *)
(* the external driver's output.                                           *)
(*                                                                         *)
(* The executor is an asyncio coroutine: every action below is one atomic  *)
(* segment of code between two suspension points (await of an HTTP call,   *)
(* a sleep, a broadcast, a subprocess).  Segments are written as functions *)
(* from a world record to a world record so that a segment can run on      *)
(* synchronously into the next one exactly as the code does.               *)
(***************************************************************************)
EXTENDS Integers, Sequences, FiniteSets, TLC

\* ---------------------------------------------------------------- bounds
MaxRequests == 2
MaxClock == 1
MaxLines == 2
MaxBroadcasts == 1
MaxRetries == 2
MaxTime == 4
MaxStages == 2
MaxSteps == 2
MaxComponents == 2
MaxSockets == 2
MaxSaves == 2
MaxChunks == 2
MaxRate == 2
MaxDelta == 2
MaxCreates == 2
MaxWorkers == 2

\* ------------------------------------------------------ program constants
\* number of clock ticks in one second (the resolution time.time() is read at)
TicksPerSecond == 1
\* a broadcast is due one second after the previous one
BroadcastEvery == 1

None == -1

TERMINAL_STATUSES == {"completed", "failed", "stopped"}

\* ------------------------------------------------------------- rationals
RECURSIVE GCD(_, _)
GCD(a, b) == IF b = 0 THEN a ELSE GCD(b, a % b)

Rat(n, dn) == LET k == GCD(n, dn) IN IF k = 0 THEN <<0, 1>> ELSE <<n \div k, dn \div k>>

Max(a, b) == IF a >= b THEN a ELSE b
Min(a, b) == IF a <= b THEN a ELSE b

\* ------------------------------------------------------------ run inputs
DurationVals == {None, 1}
SpawnRates == {2, 10}
UserCounts == {1, 2}
\* PluginConfig (name and the rps key of its config); "none" is distribution=None
NoDistribution == [name |-> "none", rps |-> None]
Distributions ==
  {NoDistribution, [name |-> "constant", rps |-> None],
   [name |-> "constant", rps |-> 0], [name |-> "unknown", rps |-> None]}

\* every combination of set / not set of the four fields that select the mode
BaseConfigs ==
  [num_requests : {None, 1}, duration_seconds : DurationVals,
   spawn_rate : {2}, user_count : {1},
   target_rps : {None, 2}, distribution : {NoDistribution, [name |-> "constant", rps |-> None]}]

\* paced runs
PacedConfigs ==
  [num_requests : 1..MaxRequests, duration_seconds : {None},
   spawn_rate : SpawnRates, user_count : UserCounts,
   target_rps : {None}, distribution : {NoDistribution}]

\* runs with a request cap, a target rate and a named shape, over every pool
\* size (BaseConfigs has the runs with a target rate and no shape)
ShapeConfigs ==
  [num_requests : 1..MaxRequests, duration_seconds : {None},
   spawn_rate : {2}, user_count : UserCounts,
   target_rps : {0, 1, 2}, distribution : Distributions \ {NoDistribution}]

\* num_requests = 0
ZeroConfig ==
  [num_requests |-> 0, duration_seconds |-> None, spawn_rate |-> 2, user_count |-> 1,
   target_rps |-> None, distribution |-> NoDistribution]

\* a run bounded by duration_seconds only, with a shape that is not registered
UnknownShapeConfig ==
  [num_requests |-> None, duration_seconds |-> 1, spawn_rate |-> 2, user_count |-> 1,
   target_rps |-> 2, distribution |-> [name |-> "unknown", rps |-> None]]

RunConfigs ==
  BaseConfigs \cup PacedConfigs \cup ShapeConfigs \cup {ZeroConfig, UnknownShapeConfig}

NoConfig ==
  [num_requests |-> None, duration_seconds |-> None, spawn_rate |-> 10,
   user_count |-> 1, target_rps |-> None, distribution |-> NoDistribution]

RunMetrics ==
  [request_count |-> 0, success_count |-> 0, failure_count |-> 0,
   rps |-> <<0, 1>>, avg_response_time |-> <<0, 1>>, active_users_estimate |-> 0]

RunState ==
  [status |-> "pending", start_time |-> None, end_time |-> None,
   config |-> NoConfig, metrics |-> RunMetrics, process |-> FALSE,
   in_flight |-> 0]

\* outcomes of one client.make_api_call
Outcomes == {"200", "non200", "error"}

\* ------------------------------------------------------------- variables
VARIABLES
  clock,      \* time.time(), in ticks
  exists,     \* the run is in active_tests
  state,      \* the RunState of the run
  d,          \* the execute_test coroutine: position and locals
  task,       \* the request tasks of the distribution mode
  permits,    \* asyncio.Semaphore value
  client,     \* the run's AsyncAPIClient
  bc,         \* broadcasts handed to manager.broadcast
  proc,       \* the external driver subprocess
  stop,       \* the stop_test coroutine, and what the last call on this run returned
  g,          \* history of the run, read by the properties only
  call,       \* one client.make_api_call followed attempt by attempt
  resp,       \* status of the last response of start_test
  ev,         \* one evaluation of a rate shape: initialize, validate, get_rate
  reg,        \* the plugin registry of primes.distributions
  mgr,        \* the WebSocketConnectionManager and one broadcast of it
  fs,         \* the preset file, the temporary file and one save of the PresetsStore
  tb,         \* the token bucket of a dispatcher loop, iteration by iteration
  ps          \* the presets API: the preset file and the handlers of POST /presets

vars == <<clock, exists, state, d, task, permits, client, bc, proc, stop, g, call, resp, ev, reg, mgr, fs, tb, ps>>

Tasks == 1..(MaxRequests + 1)

W ==
  [clock |-> clock, state |-> state, d |-> d, task |-> task, permits |-> permits,
   client |-> client, bc |-> bc, proc |-> proc, g |-> g]

Apply(w) ==
  /\ state' = w.state
  /\ d' = w.d
  /\ task' = w.task
  /\ permits' = w.permits
  /\ client' = w.client
  /\ bc' = w.bc
  /\ proc' = w.proc
  /\ g' = w.g

InitD ==
  [pc |-> "unscheduled", i |-> 0, tokens |-> 0, last_tick |-> 0, last_broadcast |-> 0,
   start |-> 0, pending |-> {}, gathered |-> {}, wake |-> 0, raised |-> FALSE,
   request_start |-> 0, lines |-> 0, ntasks |-> 0]

\* AsyncAPIClient.make_api_call before it is entered: max_retries, the loop
\* variable attempt, the HTTP attempts dispatched so far and what each returned
InitCall ==
  [pc |-> "idle", max_retries |-> 0, attempt |-> 0, attempts |-> 0, log |-> <<>>,
   backoff |-> 0]

\* a rate-shape plugin: the keys of its config that the evaluators read, and
\* the attributes that initialize() derives from them (a freshly constructed
\* constant shape with an empty config)
NoShape ==
  [name |-> "constant", rps |-> None, ramp_duration |-> 60, steps |-> <<>>,
   default_rps |-> 0, stages |-> <<>>, post_behavior |-> "hold_last",
   components |-> <<>>, target_rps |-> None,
   parse_error |-> FALSE, stage_plugins |-> <<>>, stage_durations |-> <<>>,
   stage_starts |-> <<>>, total_duration |-> 0, component_plugins |-> <<>>,
   component_weights |-> <<>>, component_targets |-> <<>>,
   normalized_weights |-> <<>>]

\* no shape is being evaluated
InitEv ==
  [pc |-> "idle", plugin |-> NoShape, valid |-> FALSE, t |-> 0, r |-> 0,
   rate |-> <<0, 1>>]

\* the names the registry is asked for: the built-in shapes, one shape that an
\* installed package provides, one that nobody provides
ShapeNames == {"constant", "linear", "poisson", "step", "sine", "mix", "sequence",
               "custom", "unknown"}

\* PluginRegistry() of registry.py: no plugin; asked and result are the name
\* and the class of the last lookup, listed what the last list_all returned
InitReg ==
  [started |-> FALSE, plugins |-> [n \in ShapeNames |-> "none"], asked |-> "none",
   result |-> "none", has_listed |-> FALSE, listed |-> {}]

\* WebSocketConnectionManager() and no broadcast under way: conns is
\* active_connections[test_id] for the one test id followed, mapped says that
\* the key is in the dict; the rest is the frame of broadcast(test_id, ...):
\* the set iterator (the size of the set when it was created, the connections
\* it has yielded, whether the set it iterates has been deleted from the dict
\* or modified), the connection being sent to, the local set disconnected, and
\* for the properties the connections subscribed at the call, those of them
\* that have not been disconnected since, those the message was sent to and
\* those whose send has failed so far
InitMgr ==
  [mapped |-> FALSE, conns |-> {}, pc |-> "idle", it_used |-> 0, yielded |-> {},
   stale |-> FALSE, touched |-> FALSE, cur |-> 0, disconnected |-> {},
   at_call |-> {}, stayed |-> {}, delivered |-> {}, failed |-> {}]

\* a path that names no file
NoFile == [exists |-> FALSE, v |-> 0, written |-> 0, len |-> 0]

\* PresetsStore(file_path) on a path without a file, no save under way: files
\* is what the two paths of a save name on disk (a file is the payload of save
\* number v, the first `written' of its `len' chunks), stray counts the
\* temporary files of earlier processes; for the properties, old is the
\* preset file as the save found it, new the file the save is to produce and
\* fault the failure the save has met
InitFs ==
  [pc |-> "idle", n |-> 0, files |-> [file |-> NoFile, temp |-> NoFile],
   stray |-> 0, old |-> NoFile, new |-> NoFile, fault |-> "none"]

\* the token bucket of one dispatcher loop before its first iteration: the
\* local tokens, and of the last iteration the rate and the tick delta it
\* read, the tokens before and after its update and the tasks it created
InitTb ==
  [pc |-> "start", tokens |-> 0, current_rps |-> 0, tick_delta |-> 0,
   before |-> 0, after |-> 0, spawned |-> 0]

\* the presets API before any request: the ids in the preset file, and for
\* each POST /presets the worker process that serves it, how far its handler
\* is, the _presets of the PresetsStore it built and whether that store's
\* lock is held; of the last GET /presets the ids it returned and the
\* requests that had been answered before it
InitPs ==
  [file |-> {},
   req |-> [r \in 1..MaxCreates |->
              [pc |-> "none", worker |-> 0, presets |-> {}, locked |-> FALSE]],
   has_listed |-> FALSE, listed |-> {}, answered |-> {}]

InitG ==
  [mode |-> "none", edges |-> {}, counted |-> {}, resolved |-> {}, ordered |-> TRUE,
   stopAccepted |-> FALSE, allOk |-> TRUE, lowerLine |-> FALSE]

Init ==
  /\ clock = 0
  /\ exists = FALSE
  /\ state = RunState
  /\ d = InitD
  /\ task = [t \in Tasks |-> [pc |-> "none", start |-> 0]]
  /\ permits = 0
  /\ client = "none"
  /\ bc = [n |-> 0, last |-> "none", last_users |-> 0]
  /\ proc = [st |-> "none", sigterm |-> FALSE, rc |-> 0]
  /\ stop = [pc |-> "idle", result |-> "none"]
  /\ g = InitG
  /\ call = InitCall
  /\ resp = "none"
  /\ ev = InitEv
  /\ reg = InitReg
  /\ mgr = InitMgr
  /\ fs = InitFs
  /\ tb = InitTb
  /\ ps = InitPs

\* ------------------------------------------------------ RunState helpers
\* an assignment to state.status; the history keeps every change as an edge
SetStatus(w, v) ==
  [w EXCEPT !.state.status = v,
            !.g.edges = IF w.state.status = v THEN @ ELSE @ \cup {<<w.state.status, v>>}]

\* a stop request that is never seen
_stop_requested_never(s) == FALSE

_stop_requested(s) == s.status \in {"stopping", "stopped"}

_configured_users(s) == Max(0, s.config.user_count)

_clamp_active_users_for_internal_modes(s) ==
  LET configured == _configured_users(s) IN
  IF configured <= 0
  THEN [s EXCEPT !.metrics.active_users_estimate = Max(0, @)]
  ELSE [s EXCEPT !.metrics.active_users_estimate = Max(0, Min(@, configured))]

_increment_active_users(s) ==
  LET s1 == [s EXCEPT !.in_flight = @ + 1] IN
  _clamp_active_users_for_internal_modes(
    [s1 EXCEPT !.metrics.active_users_estimate = s1.in_flight])

_decrement_active_users(s) ==
  LET s1 == [s EXCEPT !.in_flight = Max(0, @ - 1)] IN
  _clamp_active_users_for_internal_modes(
    [s1 EXCEPT !.metrics.active_users_estimate = s1.in_flight])

_finalize_test_run(w) ==
  LET s1 == [w.state EXCEPT !.end_time = w.clock]
      duration == s1.end_time - s1.start_time
      s2 == IF s1.start_time # None /\ duration > 0
            THEN [s1 EXCEPT !.metrics.rps =
                    Rat(s1.metrics.request_count * TicksPerSecond, duration)]
            ELSE s1
      s3 == IF s2.status \in TERMINAL_STATUSES
            THEN [s2 EXCEPT !.in_flight = 0, !.metrics.active_users_estimate = 0]
            ELSE s2
  IN [w EXCEPT !.state = s3]

\* the fields of the payload of format_metrics that the run decides
format_metrics(s) ==
  LET raw == Max(0, s.metrics.active_users_estimate)
      live == IF s.process /\ s.status = "running" /\ raw = 0
              THEN _configured_users(s) ELSE raw
  IN [status |-> s.status,
      active_users_estimate |-> IF s.status \in TERMINAL_STATUSES THEN 0 ELSE live]

\* manager.broadcast(test_id, format_metrics(test_id, state))
Broadcast(w) ==
  LET p == format_metrics(w.state) IN
  [w EXCEPT !.bc = [n |-> Min(MaxBroadcasts, w.bc.n + 1), last |-> p.status,
                    last_users |-> p.active_users_estimate]]


\* ------------------------------------------------------------ end of run
\* a run that tells its subscribers before it sets its final status
ExecFinish_broadcast_first(w, raised) ==
  LET w0 == Broadcast(w)
      w1 == IF _stop_requested(w0.state) THEN SetStatus(w0, "stopped")
            ELSE IF raised THEN SetStatus(w0, "failed")
            ELSE SetStatus(w0, "completed")
  IN [_finalize_test_run(w1) EXCEPT !.d.pc = "x_broadcast"]

\* execute_test from the return (or the exception) of _run_test_mode to the
\* await of the final broadcast
ExecFinish(w, raised) ==
  LET w1 == IF _stop_requested(w.state) THEN SetStatus(w, "stopped")
            ELSE IF raised THEN SetStatus(w, "failed")
            ELSE SetStatus(w, "completed")
      w2 == _finalize_test_run(w1)
  IN [Broadcast(w2) EXCEPT !.d.pc = "x_broadcast"]

\* ------------------------------------------------------------ one request
\* a request that is sent without being counted in request_count
RequestHead_uncounted(w, id) ==
  [w EXCEPT !.state = _increment_active_users(w.state)]

\* _execute_prime_request up to the await of client.make_api_call
RequestHead(w, id) ==
  LET s1 == _increment_active_users(w.state)
      s2 == [s1 EXCEPT !.metrics.request_count = @ + 1]
  IN [w EXCEPT !.state = s2, !.g.counted = @ \cup {id}]

\* _execute_prime_request from the outcome of make_api_call to its end
RequestTail(w, id, outcome, request_start) ==
  LET s1 == IF outcome = "200"
            THEN [w.state EXCEPT !.metrics.success_count = @ + 1]
            ELSE [w.state EXCEPT !.metrics.failure_count = @ + 1]
      s2 == _decrement_active_users(s1)
      latency == w.clock - request_start
      count == s2.metrics.request_count
      prev == s2.metrics.avg_response_time
      s3 == [s2 EXCEPT !.metrics.avg_response_time =
               Rat(prev[1] * (count - 1) + latency * prev[2], prev[2] * count)]
  IN [w EXCEPT !.state = s3,
               !.g.resolved = @ \cup {id},
               !.g.ordered = @ /\ id \in w.g.counted]

\* ------------------------------------------------------------ paced mode
RequestsToSend(config) ==
  IF config.num_requests # None /\ config.num_requests # 0
  THEN config.num_requests ELSE 100

\* asyncio.sleep(interval) of the paced loop, in ticks (a lower bound)
IntervalTicks(config) ==
  IF config.spawn_rate > 0 THEN TicksPerSecond \div config.spawn_rate
  ELSE TicksPerSecond

broadcast_every(config) ==
  IF config.spawn_rate >= 1 THEN Max(1, config.spawn_rate) ELSE 1

\* a loop that runs once more than requests_to_send
PacedIter_once_more(w) ==
  IF w.d.i > RequestsToSend(w.state.config) \/ w.state.status # "running"
  THEN [w EXCEPT !.client = "closing", !.d.pc = "p_aexit"]
  ELSE [RequestHead(w, w.d.i + 1) EXCEPT !.d.pc = "p_request",
                                         !.d.request_start = w.clock]

\* the for loop of execute_duration_test from its head to the next await
PacedIter(w) ==
  IF w.d.i >= RequestsToSend(w.state.config) \/ w.state.status # "running"
  THEN [w EXCEPT !.client = "closing", !.d.pc = "p_aexit"]
  ELSE [RequestHead(w, w.d.i + 1) EXCEPT !.d.pc = "p_request",
                                         !.d.request_start = w.clock]

execute_duration_test(w) ==
  PacedIter([w EXCEPT !.client = "open", !.d.i = 0])

\* the awaited make_api_call of the paced loop returns or raises
PacedResponse(outcome) ==
  /\ d.pc = "p_request"
  /\ LET w1 == RequestTail(W, d.i + 1, outcome, d.request_start)
         w2 == [w1 EXCEPT !.g.allOk = @ /\ outcome = "200"]
     IN IF (w2.state.metrics.request_count % broadcast_every(w2.state.config)) = 0
        THEN Apply([Broadcast(w2) EXCEPT !.d.pc = "p_broadcast"])
        ELSE Apply([w2 EXCEPT !.d.pc = "p_sleep",
                              !.d.wake = clock + IntervalTicks(w2.state.config)])
  /\ UNCHANGED <<clock, exists, stop, call, resp, ev, reg, mgr, fs, tb, ps>>

\* the in-loop broadcast returns; asyncio.sleep(interval) starts
PacedBroadcastDone ==
  /\ d.pc = "p_broadcast"
  /\ Apply([W EXCEPT !.d.pc = "p_sleep",
                     !.d.wake = clock + IntervalTicks(state.config)])
  /\ UNCHANGED <<clock, exists, stop, call, resp, ev, reg, mgr, fs, tb, ps>>

\* asyncio.sleep(interval) returns; next iteration
PacedWake ==
  /\ d.pc = "p_sleep"
  /\ clock >= d.wake
  /\ Apply(PacedIter([W EXCEPT !.d.i = @ + 1]))
  /\ UNCHANGED <<clock, exists, stop, call, resp, ev, reg, mgr, fs, tb, ps>>

\* AsyncAPIClient.__aexit__ returns; the broadcast after the loop is awaited
PacedClientClosed ==
  /\ d.pc = "p_aexit"
  /\ Apply([Broadcast([W EXCEPT !.client = "closed"]) EXCEPT !.d.pc = "p_final_broadcast"])
  /\ UNCHANGED <<clock, exists, stop, call, resp, ev, reg, mgr, fs, tb, ps>>

\* execute_duration_test returns into execute_test
PacedReturn ==
  /\ d.pc = "p_final_broadcast"
  /\ Apply(ExecFinish(W, FALSE))
  /\ UNCHANGED <<clock, exists, stop, call, resp, ev, reg, mgr, fs, tb, ps>>


\* ------------------------------------------------------ rate shapes
\* the registry after register_builtin_distributions, as far as the names of
\* Distributions go
Registered == {"constant"}

\* ConstantDistribution.validate
constant_validate(p) == p.rps = None \/ p.rps > 0

\* ConstantDistribution.get_rate
constant_get_rate(p, time_elapsed, target_rps) ==
  IF p.rps # None /\ p.rps > 0 THEN p.rps ELSE Max(0, target_rps)

_get_target_rps(config) ==
  IF config.target_rps # None THEN config.target_rps ELSE config.spawn_rate

\* _create_distribution_instance: the PluginConfig the plugin is built from
_create_distribution_instance(dist) ==
  IF dist.name = "none" THEN [name |-> "constant", rps |-> None] ELSE dist

\* ------------------------------------------------------ distribution mode
\* a semaphore that never reports itself locked
SemaphoreLocked_never(w) == FALSE

\* Semaphore.locked()
SemaphoreLocked(w) ==
  w.permits = 0 \/ \E t \in Tasks : w.task[t].pc = "waiting"

\* a cap that counts only the requests that have begun
_request_cap_reached_begun_only(w) ==
  LET max_requests == w.state.config.num_requests IN
  IF max_requests = None THEN FALSE
  ELSE w.state.metrics.request_count >= max_requests

_request_cap_reached(w) ==
  LET max_requests == w.state.config.num_requests IN
  IF max_requests = None THEN FALSE
  ELSE (w.state.metrics.request_count + Cardinality(w.d.pending)) >= max_requests

\* a bucket without its capacity
_update_tokens_uncapped(token_count, current_rps, tick_delta) ==
  IF current_rps <= 0 \/ tick_delta <= 0 THEN token_count
  ELSE token_count + current_rps * tick_delta

\* tokens are counted in 1/TicksPerSecond of a token, tick_delta in ticks
_update_tokens(token_count, current_rps, tick_delta) ==
  IF current_rps <= 0 \/ tick_delta <= 0 THEN token_count
  ELSE LET max_tokens == Max(TicksPerSecond, current_rps * 2 * TicksPerSecond)
       IN Min(max_tokens, token_count + current_rps * tick_delta)

RECURSIVE _schedule_distribution_tasks(_)
_schedule_distribution_tasks(w) ==
  IF w.d.tokens >= TicksPerSecond /\ ~SemaphoreLocked(w)
  THEN IF _request_cap_reached(w)
       THEN [w EXCEPT !.d.tokens = 0]
       ELSE LET t == w.d.ntasks + 1 IN
            _schedule_distribution_tasks(
              [w EXCEPT !.d.tokens = @ - TicksPerSecond,
                        !.d.ntasks = t,
                        !.task[t] = [pc |-> "created", start |-> 0],
                        !.d.pending = @ \cup {t}])
  ELSE w

\* a stop test that looks at the request cap only
_distribution_should_stop_cap_only(w, elapsed) == _request_cap_reached(w)

_distribution_should_stop(w, elapsed) ==
  LET duration_seconds == w.state.config.duration_seconds IN
  IF w.state.status # "running" THEN TRUE
  ELSE IF duration_seconds # None /\ elapsed >= duration_seconds * TicksPerSecond THEN TRUE
  ELSE _request_cap_reached(w)

_maybe_broadcast_metrics(w, now) ==
  IF now - w.d.last_broadcast < BroadcastEvery * TicksPerSecond THEN w
  ELSE [Broadcast(w) EXCEPT !.d.last_broadcast = now]

\* one iteration of the while loop of execute_distribution_test, from its
\* head to the next sleep (or out of the loop to the await of __aexit__)
DistIter(w) ==
  LET now == w.clock
      elapsed == now - w.d.start
      plugin == _create_distribution_instance(w.state.config.distribution)
  IN IF _distribution_should_stop(w, elapsed)
     THEN [w EXCEPT !.client = "closing", !.d.pc = "d_aexit"]
     ELSE LET current_rps == constant_get_rate(plugin, elapsed, _get_target_rps(w.state.config))
              w1 == [w EXCEPT !.state.metrics.rps = <<current_rps, 1>>,
                              !.d.tokens = _update_tokens(@, current_rps, now - w.d.last_tick),
                              !.d.last_tick = now]
          IN IF current_rps <= 0
             THEN [w1 EXCEPT !.d.pc = "d_sleep", !.d.wake = now + (TicksPerSecond \div 4)]
             ELSE [_maybe_broadcast_metrics(_schedule_distribution_tasks(w1), now)
                     EXCEPT !.d.pc = "d_sleep", !.d.wake = now]

\* execute_distribution_test from its entry to the first await
execute_distribution_test(w) ==
  LET config == w.state.config
      plugin == _create_distribution_instance(config.distribution)
  IN IF plugin.name \notin Registered THEN ExecFinish(w, TRUE)
     ELSE IF ~constant_validate(plugin) THEN ExecFinish(w, TRUE)
     ELSE IF config.num_requests = None /\ config.duration_seconds = None
     THEN ExecFinish(w, TRUE)
     ELSE DistIter([w EXCEPT !.d.start = w.clock, !.d.last_broadcast = w.clock,
                             !.d.last_tick = w.clock, !.d.tokens = 0,
                             !.permits = Max(1, config.user_count),
                             !.d.pending = {}, !.client = "open"])

\* asyncio.sleep of the loop returns; next iteration.  create_task put the
\* tasks of the previous iteration on the loop's ready queue before the sleep
\* set its timer, so each of them has run its first step by now
DistWake ==
  /\ d.pc = "d_sleep"
  /\ clock >= d.wake
  /\ \A t \in Tasks : task[t].pc # "created"
  /\ Apply(DistIter(W))
  /\ UNCHANGED <<clock, exists, stop, call, resp, ev, reg, mgr, fs, tb, ps>>

\* AsyncAPIClient.__aexit__ returns: gather the pending tasks, or broadcast
DistClientClosed ==
  /\ d.pc = "d_aexit"
  /\ LET w1 == [W EXCEPT !.client = "closed"] IN
     IF d.pending # {}
     THEN Apply([w1 EXCEPT !.d.pc = "d_gather", !.d.gathered = d.pending])
     ELSE Apply([Broadcast(w1) EXCEPT !.d.pc = "d_final_broadcast"])
  /\ UNCHANGED <<clock, exists, stop, call, resp, ev, reg, mgr, fs, tb, ps>>

\* asyncio.gather(*pending, return_exceptions=True) returns
DistGathered ==
  /\ d.pc = "d_gather"
  /\ \A t \in d.gathered : task[t].pc \in {"finished", "discarded"}
  /\ Apply([Broadcast(W) EXCEPT !.d.pc = "d_final_broadcast"])
  /\ UNCHANGED <<clock, exists, stop, call, resp, ev, reg, mgr, fs, tb, ps>>

\* execute_distribution_test returns into execute_test
DistReturn ==
  /\ d.pc = "d_final_broadcast"
  /\ Apply(ExecFinish(W, FALSE))
  /\ UNCHANGED <<clock, exists, stop, call, resp, ev, reg, mgr, fs, tb, ps>>

\* ------------------------------------------------------ request tasks
\* a task that ends without giving its permit back
TaskDone_keeps_permit(w, t) ==
  [w EXCEPT !.task[t].pc = "finished"]

\* _run_request leaves "async with semaphore"; the task is done
TaskDone(w, t) ==
  [w EXCEPT !.permits = @ + 1, !.task[t].pc = "finished"]

\* _run_request once it holds a permit, up to the await of make_api_call;
\* on a client whose _client is None make_api_call raises at once
TaskAcquired(w, t) ==
  LET w1 == RequestHead([w EXCEPT !.permits = @ - 1], t) IN
  IF w.client = "closed"
  THEN TaskDone(RequestTail(w1, t, "error", w.clock), t)
  ELSE [w1 EXCEPT !.task[t] = [pc |-> IF w.client = "open" THEN "inflight" ELSE "doomed",
                               start |-> w.clock]]

\* a created task runs for the first time: Semaphore.acquire
TaskStart(t) ==
  /\ task[t].pc = "created"
  /\ IF SemaphoreLocked(W)
     THEN Apply([W EXCEPT !.task[t].pc = "waiting"])
     ELSE Apply(TaskAcquired(W, t))
  /\ UNCHANGED <<clock, exists, stop, call, resp, ev, reg, mgr, fs, tb, ps>>

\* a waiting task is woken by a release
TaskWake(t) ==
  /\ task[t].pc = "waiting"
  /\ permits > 0
  /\ Apply(TaskAcquired(W, t))
  /\ UNCHANGED <<clock, exists, stop, call, resp, ev, reg, mgr, fs, tb, ps>>

\* the awaited make_api_call of a task returns or raises; a call begun on a
\* client that was already closing can only raise
TaskResponse(t, outcome) ==
  /\ task[t].pc \in {"inflight", "doomed"}
  /\ task[t].pc = "doomed" => outcome = "error"
  /\ LET w1 == RequestTail(W, t, outcome, task[t].start)
         w2 == IF outcome = "200" \/ (outcome = "error" /\ client # "open")
               THEN w1 ELSE [w1 EXCEPT !.g.allOk = FALSE]
     IN Apply(TaskDone(w2, t))
  /\ UNCHANGED <<clock, exists, stop, call, resp, ev, reg, mgr, fs, tb, ps>>

\* the done callback pending.discard
TaskDiscard(t) ==
  /\ task[t].pc = "finished"
  /\ Apply([W EXCEPT !.task[t].pc = "discarded", !.d.pending = @ \ {t}])
  /\ UNCHANGED <<clock, exists, stop, call, resp, ev, reg, mgr, fs, tb, ps>>


\* ------------------------------------------------------ external driver
\* int(token) for the tokens of the sample lines; other tokens raise ValueError
IntLiterals == [tok \in {"0", "1", "2", "3"} |->
  CASE tok = "0" -> 0 [] tok = "1" -> 1 [] tok = "2" -> 2 [] tok = "3" -> 3]

\* float(token), as a rational
FloatLiterals == [tok \in {"0", "1", "2", "3", "0.5", "1.0", "2.0"} |->
  CASE tok = "0.5" -> <<1, 2>> [] tok = "1.0" -> <<1, 1>> [] tok = "2.0" -> <<2, 1>>
    [] OTHER -> <<IntLiterals[tok], 1>>]

\* token.split("(", maxsplit=1)[0]
BeforeParen(tok) ==
  CASE tok = "0(0.00%)" -> "0" [] tok = "1(50.00%)" -> "1" [] tok = "2(200.00%)" -> "2"
    [] tok = "(1" -> "" [] tok = "(2" -> ""
    [] OTHER -> tok

\* the digits of a "(N" token, for the pattern \((\d+)\s+total users\)
AfterParen(tok) == CASE tok = "(1" -> "1" [] tok = "(2" -> "2" [] OTHER -> ""

\* output lines of the driver, split at white space
Lines ==
  {<<"Aggregated", "2", "1(50.00%)", "2.0", "0.5">>,
   <<"(1", "total", "users)", "Aggregated", "1", "2(200.00%)", "x", "0.5">>,
   <<"users:", "2", "RPS:", "0.5", "Aggregated", "x">>}

IndexOf(parts, tok) ==
  IF \E i \in DOMAIN parts : parts[i] = tok
  THEN CHOOSE i \in DOMAIN parts : parts[i] = tok /\ \A j \in 1..(i - 1) : parts[j] # tok
  ELSE 0

_parse_rps_from_line(parts) ==
  LET hits == {i \in DOMAIN parts : parts[i] = "RPS:" /\ i + 1 \in DOMAIN parts
                                     /\ parts[i + 1] \in DOMAIN FloatLiterals}
  IN IF hits = {} THEN <<FALSE, <<0, 1>>>>
     ELSE LET i == CHOOSE k \in hits : \A j \in hits : k <= j
          IN <<TRUE, FloatLiterals[parts[i + 1]]>>

_parse_aggregated_rps(aggregated_tail) ==
  IF Len(aggregated_tail) < 2 THEN <<FALSE, <<0, 1>>>>
  ELSE LET tok == aggregated_tail[Len(aggregated_tail) - 1] IN
       IF tok \notin DOMAIN FloatLiterals THEN <<FALSE, <<0, 1>>>>
       ELSE <<TRUE, FloatLiterals[tok]>>

\* <<parsed, total_requests, total_failures, total_successes, rps parsed, rps>>
_parse_aggregated_metrics(parts) ==
  LET idx == IndexOf(parts, "Aggregated")
      bad == <<FALSE, 0, 0, 0, FALSE, <<0, 1>>>>
  IN IF idx = 0 THEN bad
     ELSE IF idx + 1 > Len(parts) \/ parts[idx + 1] \notin DOMAIN IntLiterals THEN bad
     ELSE IF idx + 2 > Len(parts) \/ BeforeParen(parts[idx + 2]) \notin DOMAIN IntLiterals THEN bad
     ELSE LET total_requests == IntLiterals[parts[idx + 1]]
              total_failures == IntLiterals[BeforeParen(parts[idx + 2])]
              rps == _parse_aggregated_rps(SubSeq(parts, idx + 1, Len(parts)))
          IN <<TRUE, total_requests, total_failures,
               Max(0, total_requests - total_failures), rps[1], rps[2]>>

\* totals stored without comparing them with the stored ones
_parse_metrics_from_output_unguarded(s, parts) ==
  LET a == _parse_aggregated_metrics(parts) IN
  IF ~a[1] THEN s
  ELSE [s EXCEPT !.metrics.request_count = a[2],
                 !.metrics.failure_count = a[3],
                 !.metrics.success_count = a[4]]

_parse_metrics_from_output(s, parts) ==
  LET parsed_rps == _parse_rps_from_line(parts)
      s1 == IF parsed_rps[1] THEN [s EXCEPT !.metrics.rps = parsed_rps[2]] ELSE s
      a == _parse_aggregated_metrics(parts)
  IN IF ~a[1] THEN s1
     ELSE [s1 EXCEPT
            !.metrics.request_count = IF a[2] >= @ THEN a[2] ELSE @,
            !.metrics.failure_count = IF a[3] >= @ THEN a[3] ELSE @,
            !.metrics.success_count = IF a[4] >= @ THEN a[4] ELSE @,
            !.metrics.rps = IF a[5] THEN a[6] ELSE @]

\* the two _LOCUST_USER_PATTERNS, in order
_set_locust_active_users_from_line(s, parts) ==
  LET m1 == {i \in DOMAIN parts : AfterParen(parts[i]) \in DOMAIN IntLiterals
                                  /\ i + 2 \in DOMAIN parts
                                  /\ parts[i + 1] = "total" /\ parts[i + 2] = "users)"}
      m2 == {i \in DOMAIN parts : parts[i] \in {"users:", "user:"} /\ i + 1 \in DOMAIN parts
                                  /\ parts[i + 1] \in DOMAIN IntLiterals}
      first(m) == CHOOSE k \in m : \A j \in m : k <= j
  IN IF m1 # {}
     THEN [s EXCEPT !.metrics.active_users_estimate =
             Max(0, IntLiterals[AfterParen(parts[first(m1)])])]
     ELSE IF m2 # {}
     THEN [s EXCEPT !.metrics.active_users_estimate =
             Max(0, IntLiterals[parts[first(m2) + 1]])]
     ELSE s

\* execute_locust_test up to the await of create_subprocess_exec
execute_locust_test(w) == [w EXCEPT !.d.pc = "l_spawn"]

\* create_subprocess_exec returns the process, or raises
LocustSpawned(ok) ==
  /\ d.pc = "l_spawn"
  /\ IF ok
     THEN Apply([W EXCEPT !.state.process = TRUE,
                          !.proc = [st |-> "running", sigterm |-> FALSE, rc |-> 0],
                          !.d.pc = "l_stream", !.d.last_broadcast = clock,
                          !.d.wake = clock + TicksPerSecond])
     ELSE Apply(ExecFinish(W, TRUE))
  /\ UNCHANGED <<clock, exists, stop, call, resp, ev, reg, mgr, fs, tb, ps>>

\* _stream_locust_output reads one line from the queue
LocustLine(parts) ==
  /\ d.pc = "l_stream"
  /\ d.lines < MaxLines
  /\ LET s1 == _set_locust_active_users_from_line(
                 _parse_metrics_from_output(state, parts), parts)
         a == _parse_aggregated_metrics(parts)
         lower == a[1] /\ (a[2] < state.metrics.request_count
                            \/ a[3] < state.metrics.failure_count
                            \/ a[4] < state.metrics.success_count)
         w1 == [W EXCEPT !.state = s1, !.d.lines = @ + 1,
                         !.d.wake = clock + TicksPerSecond,
                         !.g.lowerLine = @ \/ lower]
     IN Apply(_maybe_broadcast_metrics(w1, clock))
  /\ UNCHANGED <<clock, exists, stop, call, resp, ev, reg, mgr, fs, tb, ps>>

\* queue.get times out after one second: broadcast
LocustTimeout ==
  /\ d.pc = "l_stream"
  /\ clock >= d.wake
  /\ Apply([Broadcast(W) EXCEPT !.d.last_broadcast = clock,
                                !.d.wake = clock + TicksPerSecond])
  /\ UNCHANGED <<clock, exists, stop, call, resp, ev, reg, mgr, fs, tb, ps>>

\* the subprocess exits
ProcExit(rc) ==
  /\ proc.st = "running"
  /\ rc = -15 => proc.sigterm
  /\ proc' = [proc EXCEPT !.st = "exited", !.rc = rc]
  /\ UNCHANGED <<clock, exists, state, d, task, permits, client, bc, stop, g, call, resp, ev, reg, mgr, fs, tb, ps>>

\* both streams are closed; _ensure_process_success; the broadcast of the
\* finally clause of execute_locust_test is awaited
LocustEOF ==
  /\ d.pc = "l_stream"
  /\ proc.st = "exited"
  /\ LET ok == proc.rc = 0 \/ (_stop_requested(state) /\ proc.rc \in {-15, 143})
     IN Apply([Broadcast(W) EXCEPT !.d.pc = "l_final_broadcast", !.d.raised = ~ok])
  /\ UNCHANGED <<clock, exists, stop, call, resp, ev, reg, mgr, fs, tb, ps>>

\* execute_locust_test returns or raises into execute_test
LocustReturn ==
  /\ d.pc = "l_final_broadcast"
  /\ Apply(ExecFinish(W, d.raised))
  /\ UNCHANGED <<clock, exists, stop, call, resp, ev, reg, mgr, fs, tb, ps>>

\* ------------------------------------------------------ execute_test
_should_use_distribution_mode(config) ==
  config.distribution.name # "none" \/ config.target_rps # None

\* the distribution mode chosen whenever a shape or target_rps is set
_run_test_mode_by_shape(config) ==
  IF _should_use_distribution_mode(config) THEN "shape"
  ELSE IF config.num_requests # None /\ config.num_requests # 0 THEN "paced"
  ELSE "external"

\* the branch _run_test_mode takes
_run_test_mode(config) ==
  IF config.num_requests # None /\ config.num_requests # 0
  THEN IF _should_use_distribution_mode(config) THEN "shape" ELSE "paced"
  ELSE "external"

\* start_test's background task begins: execute_test up to its first await
ExecStart ==
  /\ exists
  /\ d.pc = "scheduled"
  /\ LET w0 == SetStatus(W, "running")
         mode == _run_test_mode(state.config)
         w1 == [w0 EXCEPT !.state.start_time = clock, !.g.mode = mode]
     IN CASE mode = "shape" -> Apply(execute_distribution_test(w1))
          [] mode = "paced" -> Apply(execute_duration_test(w1))
          [] OTHER -> Apply(execute_locust_test(w1))
  /\ UNCHANGED <<clock, exists, stop, call, resp, ev, reg, mgr, fs, tb, ps>>

\* the final broadcast of execute_test returns
ExecDone ==
  /\ d.pc = "x_broadcast"
  /\ d' = [d EXCEPT !.pc = "done"]
  /\ UNCHANGED <<clock, exists, state, task, permits, client, bc, proc, stop, g, call, resp, ev, reg, mgr, fs, tb, ps>>

\* ------------------------------------------------------ create and stop
\* a start_test that only checks target_rps
start_test_rejects_target_only(config) ==
  config.distribution.name # "none" /\ config.target_rps = None

\* the two checks of start_test that answer 400
start_test_rejects(config) ==
  /\ config.distribution.name # "none"
  /\ \/ config.target_rps = None
     \/ (config.num_requests = None /\ config.duration_seconds = None)

\* POST /start: 400, or create_test(config), background_tasks.add_task(execute_test)
\* and 202
StartTest(config) ==
  /\ ~exists
  /\ IF start_test_rejects(config)
     THEN /\ resp' = "400"
          /\ UNCHANGED <<exists, state, d, stop>>
     ELSE /\ resp' = "202"
          /\ exists' = TRUE
          /\ state' = [RunState EXCEPT !.config = config]
          /\ d' = [d EXCEPT !.pc = "scheduled"]
          /\ stop' = [stop EXCEPT !.result = "none"]
  /\ UNCHANGED <<clock, task, permits, client, bc, proc, g, call, ev, reg, mgr, fs, tb, ps>>

\* create_test(config) and execute_test scheduled by a caller of the executor
\* other than start_test, with a config start_test does not let through
CreateTest(config) ==
  /\ ~exists
  /\ start_test_rejects(config)
  /\ exists' = TRUE
  /\ state' = [RunState EXCEPT !.config = config]
  /\ d' = [d EXCEPT !.pc = "scheduled"]
  /\ stop' = [stop EXCEPT !.result = "none"]
  /\ resp' = "none"
  /\ UNCHANGED <<clock, task, permits, client, bc, proc, g, call, ev, reg, mgr, fs, tb, ps>>

\* stop_test from "state.status = 'stopped'" to the await of its broadcast
StopTail(w) ==
  LET w1 == SetStatus(w, "stopped")
      s2 == [w1.state EXCEPT !.metrics.active_users_estimate = 0, !.in_flight = 0,
                             !.end_time = w.clock]
  IN Broadcast([w1 EXCEPT !.state = s2])

\* stop_test without the test on TERMINAL_STATUSES
StopTest_stops_terminal ==
  /\ \/ stop.pc = "idle"
     \/ exists /\ state.status \in TERMINAL_STATUSES \cup {"stopping"}
  /\ IF ~exists
     THEN /\ stop' = [stop EXCEPT !.result = "false"]
          /\ UNCHANGED <<state, d, task, permits, client, bc, proc, g>>
     ELSE IF state.status = "stopping"
     THEN /\ stop' = [stop EXCEPT !.result = "true"]
          /\ UNCHANGED <<state, d, task, permits, client, bc, proc, g>>
     ELSE LET w1 == [SetStatus(W, "stopping") EXCEPT !.g.stopAccepted = TRUE] IN
          IF state.process
          THEN /\ Apply([w1 EXCEPT !.proc.sigterm = TRUE])
               /\ stop' = [stop EXCEPT !.pc = "s_terminate"]
          ELSE /\ Apply(StopTail(w1))
               /\ stop' = [stop EXCEPT !.pc = "s_broadcast"]
  /\ UNCHANGED <<clock, exists, call, resp, ev, reg, mgr, fs, tb, ps>>

\* stop_test is called: up to its first await, or to its return.  The call
\* followed to its end is the one that found the run neither terminal nor
\* stopping; calls made while it is suspended are those that return at once.
StopTest ==
  /\ \/ stop.pc = "idle"
     \/ exists /\ state.status \in TERMINAL_STATUSES \cup {"stopping"}
  /\ IF ~exists
     THEN /\ stop' = [stop EXCEPT !.result = "false"]
          /\ UNCHANGED <<state, d, task, permits, client, bc, proc, g>>
     ELSE IF state.status \in TERMINAL_STATUSES \/ state.status = "stopping"
     THEN /\ stop' = [stop EXCEPT !.result = "true"]
          /\ UNCHANGED <<state, d, task, permits, client, bc, proc, g>>
     ELSE LET w1 == [SetStatus(W, "stopping") EXCEPT !.g.stopAccepted = TRUE] IN
          IF state.process
          THEN /\ Apply([w1 EXCEPT !.proc.sigterm = TRUE])
               /\ stop' = [stop EXCEPT !.pc = "s_terminate"]
          ELSE /\ Apply(StopTail(w1))
               /\ stop' = [stop EXCEPT !.pc = "s_broadcast"]
  /\ UNCHANGED <<clock, exists, call, resp, ev, reg, mgr, fs, tb, ps>>

\* _terminate_process returns once the subprocess has exited
StopTerminated ==
  /\ stop.pc = "s_terminate"
  /\ proc.st = "exited"
  /\ Apply(StopTail([W EXCEPT !.state.process = FALSE]))
  /\ stop' = [stop EXCEPT !.pc = "s_broadcast"]
  /\ UNCHANGED <<clock, exists, call, resp, ev, reg, mgr, fs, tb, ps>>

\* the broadcast of stop_test returns; stop_test returns True
StopReturn ==
  /\ stop.pc = "s_broadcast"
  /\ stop' = [pc |-> "idle", result |-> "true"]
  /\ UNCHANGED <<clock, exists, state, d, task, permits, client, bc, proc, g, call, resp, ev, reg, mgr, fs, tb, ps>>

\* ------------------------------------------------------ one API call
\* what one HTTP attempt of _attempt_request ends with: a response with that
\* status code, or an exception of httpx
AttemptOutcomes == {"200", "204", "302", "404", "500", "timeout", "network", "unexpected"}

IsResponse(o) == o \in {"200", "204", "302", "404", "500"}

\* httpx.Response.is_error: a 4xx or 5xx status code
is_error(o) == o \in {"404", "500"}

RECURSIVE Pow2(_)
Pow2(n) == IF n = 0 THEN 1 ELSE 2 * Pow2(n - 1)

\* a loop that retries once more than max_retries
RetriesLeft_one_more(c) == c.attempt <= c.max_retries

\* "attempt < self.max_retries" of _handle_error_response and make_api_call
RetriesLeft(c) == c.attempt < c.max_retries

\* a paced run of one request that is about to call _execute_prime_request,
\* on a client with max_retries in 0..MaxRetries
ReqInit ==
  /\ clock = 0
  /\ exists = TRUE
  /\ state = [RunState EXCEPT !.status = "running", !.start_time = 0,
                              !.config = [ZeroConfig EXCEPT !.num_requests = 1]]
  /\ d = InitD
  /\ task = [t \in Tasks |-> [pc |-> "none", start |-> 0]]
  /\ permits = 0
  /\ client \in {"open", "closed"}
  /\ bc = [n |-> 0, last |-> "none", last_users |-> 0]
  /\ proc = [st |-> "none", sigterm |-> FALSE, rc |-> 0]
  /\ stop = [pc |-> "idle", result |-> "none"]
  /\ g = [InitG EXCEPT !.mode = "paced"]
  /\ call \in {[InitCall EXCEPT !.max_retries = r] : r \in 0..MaxRetries}
  /\ resp = "202"
  /\ ev = InitEv
  /\ reg = InitReg
  /\ mgr = InitMgr
  /\ fs = InitFs
  /\ tb = InitTb
  /\ ps = InitPs

\* _execute_prime_request up to the first HTTP attempt of make_api_call; on a
\* client without _client make_api_call raises RuntimeError at once
ReqBegin ==
  /\ call.pc = "idle"
  /\ LET w1 == RequestHead(W, 1) IN
     IF client # "open"
     THEN /\ Apply(RequestTail(w1, 1, "error", clock))
          /\ call' = [call EXCEPT !.pc = "raised"]
     ELSE /\ Apply(w1)
          /\ call' = [call EXCEPT !.pc = "dispatched", !.attempts = 1]
  /\ UNCHANGED <<clock, exists, stop, resp, ev, reg, mgr, fs, tb, ps>>

\* the awaited HTTP attempt ends: _attempt_request, then make_api_call up to
\* its return, its raise or the sleep of _sleep_for_retry; a return or a raise
\* runs on into the rest of _execute_prime_request
AttemptReturns(o) ==
  /\ call.pc = "dispatched"
  /\ LET c1 == [call EXCEPT !.log = Append(@, o)] IN
     IF IsResponse(o) /\ ~is_error(o)
     THEN /\ Apply(RequestTail(W, 1, IF o = "200" THEN "200" ELSE "non200", clock))
          /\ call' = [c1 EXCEPT !.pc = "returned"]
     ELSE IF RetriesLeft(call)
     THEN /\ call' = [c1 EXCEPT !.pc = "backoff", !.backoff = Min(Pow2(call.attempt), 10)]
          /\ UNCHANGED <<state, d, task, permits, client, bc, proc, g>>
     ELSE /\ Apply(RequestTail(W, 1, "error", clock))
          /\ call' = [c1 EXCEPT !.pc = "raised"]
  /\ UNCHANGED <<clock, exists, stop, resp, ev, reg, mgr, fs, tb, ps>>

\* asyncio.sleep(backoff) returns: the next attempt is dispatched
BackoffWake ==
  /\ call.pc = "backoff"
  /\ call' = [call EXCEPT !.pc = "dispatched", !.attempt = @ + 1, !.attempts = @ + 1]
  /\ UNCHANGED <<clock, exists, state, d, task, permits, client, bc, proc, stop, g, resp, ev, reg, mgr, fs, tb, ps>>

ReqNext ==
  \/ ReqBegin
  \/ \E o \in AttemptOutcomes : AttemptReturns(o)
  \/ BackoffWake
  \/ StopTest
  \/ StopReturn

ReqSpec == ReqInit /\ [][ReqNext]_vars

\* ------------------------------------------------------ time
\* time.time() advances; it is read from the start of execute_test to the end
\* of the run and of a pending stop_test
Tick ==
  /\ exists
  /\ d.pc # "scheduled"
  /\ d.pc \notin {"done", "raised"} \/ stop.pc # "idle"
  /\ clock < MaxClock
  /\ clock' = clock + 1
  /\ UNCHANGED <<exists, state, d, task, permits, client, bc, proc, stop, g, call, resp, ev, reg, mgr, fs, tb, ps>>

Next ==
  \/ \E config \in RunConfigs : StartTest(config)
  \/ \E config \in RunConfigs : CreateTest(config)
  \/ ExecStart
  \/ \E outcome \in Outcomes : PacedResponse(outcome)
  \/ PacedBroadcastDone
  \/ PacedWake
  \/ PacedClientClosed
  \/ PacedReturn
  \/ DistWake
  \/ DistClientClosed
  \/ DistGathered
  \/ DistReturn
  \/ \E t \in Tasks : TaskStart(t)
  \/ \E t \in Tasks : TaskWake(t)
  \/ \E t \in Tasks, outcome \in Outcomes : TaskResponse(t, outcome)
  \/ \E t \in Tasks : TaskDiscard(t)
  \/ \E ok \in BOOLEAN : LocustSpawned(ok)
  \/ \E parts \in Lines : LocustLine(parts)
  \/ LocustTimeout
  \/ \E rc \in {-15, 0, 1} : ProcExit(rc)
  \/ LocustEOF
  \/ LocustReturn
  \/ ExecDone
  \/ StopTest
  \/ StopTerminated
  \/ StopReturn
  \/ Tick

Spec == Init /\ [][Next]_vars

\* ------------------------------------------------------ subscriber churn
\* manager.broadcast iterates over the set of the run's connections and awaits
\* a send inside the loop; a connect or disconnect during that await makes the
\* iteration raise RuntimeError out of broadcast.

\* a broadcast awaited by execute_duration_test raises: from inside the loop
\* through __aexit__ of the client, after the loop straight into execute_test
PacedBroadcastRaised ==
  /\ d.pc \in {"p_broadcast", "p_final_broadcast"}
  /\ IF d.pc = "p_broadcast"
     THEN Apply([W EXCEPT !.client = "closing", !.d.pc = "b_aexit"])
     ELSE Apply(ExecFinish(W, TRUE))
  /\ UNCHANGED <<clock, exists, stop, call, resp, ev, reg, mgr, fs, tb, ps>>

\* a broadcast awaited by execute_distribution_test raises: the one of
\* _maybe_broadcast_metrics in the iteration that has just run, or the one
\* after the gather
DistBroadcastRaised ==
  /\ \/ d.pc = "d_sleep" /\ d.last_broadcast = d.last_tick /\ d.last_broadcast # d.start
     \/ d.pc = "d_final_broadcast"
  /\ IF d.pc = "d_sleep"
     THEN Apply([W EXCEPT !.client = "closing", !.d.pc = "b_aexit"])
     ELSE Apply(ExecFinish(W, TRUE))
  /\ UNCHANGED <<clock, exists, stop, call, resp, ev, reg, mgr, fs, tb, ps>>

\* __aexit__ of the client returns while the exception propagates: the except
\* clause and the finally clause of execute_test
AbortClientClosed ==
  /\ d.pc = "b_aexit"
  /\ Apply(ExecFinish([W EXCEPT !.client = "closed"], TRUE))
  /\ UNCHANGED <<clock, exists, stop, call, resp, ev, reg, mgr, fs, tb, ps>>

\* a broadcast awaited by _stream_locust_output raises (the finally clause of
\* execute_locust_test broadcasts), or that broadcast of the finally clause
LocustBroadcastRaised ==
  /\ \/ d.pc = "l_stream" /\ bc.n > 0 /\ d.last_broadcast = clock
     \/ d.pc = "l_final_broadcast"
  /\ IF d.pc = "l_stream"
     THEN Apply([Broadcast(W) EXCEPT !.d.pc = "l_final_broadcast", !.d.raised = TRUE])
     ELSE Apply(ExecFinish(W, TRUE))
  /\ UNCHANGED <<clock, exists, stop, call, resp, ev, reg, mgr, fs, tb, ps>>

\* the broadcast of the finally clause of execute_test raises: execute_test
\* raises to its caller
ExecBroadcastRaised ==
  /\ d.pc = "x_broadcast"
  /\ d' = [d EXCEPT !.pc = "raised"]
  /\ UNCHANGED <<clock, exists, state, task, permits, client, bc, proc, stop, g, call, resp, ev, reg, mgr, fs, tb, ps>>

ChurnNext ==
  \/ Next
  \/ PacedBroadcastRaised
  \/ DistBroadcastRaised
  \/ AbortClientClosed
  \/ LocustBroadcastRaised
  \/ ExecBroadcastRaised

SpecChurn == Init /\ [][ChurnNext]_vars

\* ------------------------------------------------------ shape evaluators
\* rates are exact fractions <<numerator, denominator>>; times, durations,
\* weights and targets are whole numbers
RatOf(i) == <<i, 1>>
RatAdd(a, b) == Rat(a[1] * b[2] + b[1] * a[2], a[2] * b[2])
RatMul(a, b) == Rat(a[1] * b[1], a[2] * b[2])
RatMax0(a) == IF a[1] < 0 THEN RatOf(0) ELSE a

\* register_builtin_distributions
BuiltinNames == {"constant", "linear", "poisson", "step", "sine", "mix", "sequence"}

\* ---- the configs the evaluators are given
Constant(rps) == [NoShape EXCEPT !.rps = rps]
Linear(ramp_duration) == [NoShape EXCEPT !.name = "linear", !.ramp_duration = ramp_duration]
Step(steps, default_rps) ==
  [NoShape EXCEPT !.name = "step", !.steps = steps, !.default_rps = default_rps]
Sequence(stages, post_behavior) ==
  [NoShape EXCEPT !.name = "sequence", !.stages = stages, !.post_behavior = post_behavior]
Mix(components, target_rps) ==
  [NoShape EXCEPT !.name = "mix", !.components = components, !.target_rps = target_rps]

\* sequences over S of length lo..hi
SeqsOf(S, lo, hi) == UNION {[1..n -> S] : n \in lo..hi}

RECURSIVE SumSeq(_, _)
SumSeq(q, n) == IF n = 0 THEN 0 ELSE q[n] + SumSeq(q, n - 1)

\* ---- step
\* tuples compare by time, then by rate
StepLess(a, b) == a[1] < b[1] \/ (a[1] = b[1] /\ a[2] < b[2])

RECURSIVE InsertStep(_, _)
InsertStep(x, sorted) ==
  IF sorted = <<>> THEN <<x>>
  ELSE IF StepLess(sorted[1], x) THEN <<sorted[1]>> \o InsertStep(x, Tail(sorted))
  ELSE <<x>> \o sorted

\* StepDistribution._parse_steps: sorted(...)
RECURSIVE _parse_steps(_)
_parse_steps(steps) ==
  IF steps = <<>> THEN <<>> ELSE InsertStep(steps[1], _parse_steps(Tail(steps)))

\* the loop of StepDistribution.get_rate from index i on
RECURSIVE StepLoop(_, _, _, _)
StepLoop(steps, i, time_elapsed, rate) ==
  IF i > Len(steps) THEN rate
  ELSE IF steps[i][1] <= time_elapsed
       THEN StepLoop(steps, i + 1, time_elapsed, steps[i][2])
       ELSE rate

\* StepDistribution.get_rate
step_get_rate(p, time_elapsed, target_rps) ==
  IF p.parse_error THEN RatOf(Max(0, target_rps))
  ELSE IF p.steps = <<>> THEN RatOf(Max(0, target_rps))
  ELSE RatOf(Max(0, StepLoop(p.steps, 1, time_elapsed, p.default_rps)))

\* StepDistribution.validate: _is_valid_step along the list, from prev_time
RECURSIVE StepsValid(_, _, _)
StepsValid(steps, i, prev_time) ==
  IF i > Len(steps) THEN TRUE
  ELSE /\ steps[i][1] >= 0
       /\ steps[i][2] >= 0
       /\ steps[i][1] > prev_time
       /\ StepsValid(steps, i + 1, steps[i][1])

step_validate(p) == ~p.parse_error /\ p.default_rps >= 0 /\ StepsValid(p.steps, 1, -1)

\* ---- linear
\* LinearDistribution.get_rate
linear_get_rate(p, time_elapsed, target_rps) ==
  IF p.ramp_duration <= 0 THEN RatOf(target_rps)
  ELSE IF time_elapsed >= p.ramp_duration THEN RatOf(target_rps)
  ELSE Rat(time_elapsed * target_rps, p.ramp_duration)

\* LinearDistribution.validate
linear_validate(p) == ~p.parse_error /\ p.ramp_duration > 0

\* ---- initialize
RECURSIVE initialize(_)

\* SequenceDistribution.initialize: a stage whose shape name is not registered
\* sets _parse_error and is skipped
sequence_initialize(c) ==
  LET parsed == SelectSeq(c.stages, LAMBDA s : s.distribution.name \in BuiltinNames)
      durations == [i \in 1..Len(parsed) |-> parsed[i].duration_seconds]
  IN [c EXCEPT !.parse_error = Len(parsed) # Len(c.stages),
               !.stage_plugins = [i \in 1..Len(parsed) |-> initialize(parsed[i].distribution)],
               !.stage_durations = durations,
               !.stage_starts = [i \in 1..Len(parsed) |-> SumSeq(durations, i - 1)],
               !.total_duration = SumSeq(durations, Len(parsed))]

\* MixDistribution._set_normalized_weights
_set_normalized_weights(weights) ==
  LET total_weight == SumSeq(weights, Len(weights)) IN
  IF total_weight <= 0 THEN <<>>
  ELSE [i \in 1..Len(weights) |-> Rat(weights[i], total_weight)]

\* MixDistribution.initialize
mix_initialize(c) ==
  LET parsed == SelectSeq(c.components, LAMBDA s : s.distribution.name \in BuiltinNames)
      weights == [i \in 1..Len(parsed) |-> parsed[i].weight]
  IN [c EXCEPT !.parse_error = Len(parsed) # Len(c.components),
               !.component_plugins =
                  [i \in 1..Len(parsed) |-> initialize(parsed[i].distribution)],
               !.component_weights = weights,
               !.component_targets =
                  [i \in 1..Len(parsed) |-> parsed[i].distribution.target_rps],
               !.normalized_weights = _set_normalized_weights(weights)]

\* initialize(config) with the steps of a step shape kept as they are given
initialize_steps_as_given(c) ==
  CASE c.name = "sequence" -> sequence_initialize(c)
    [] c.name = "mix" -> mix_initialize(c)
    [] OTHER -> c

\* initialize(config) of the plugin class the name is registered for
initialize(c) ==
  CASE c.name = "step" -> [c EXCEPT !.steps = _parse_steps(c.steps)]
    [] c.name = "sequence" -> sequence_initialize(c)
    [] c.name = "mix" -> mix_initialize(c)
    [] OTHER -> c

\* ---- get_rate
RECURSIVE get_rate(_, _, _)

\* SequenceDistribution._rate_for_stage (index counted from 1)
_rate_for_stage(p, index, elapsed, target_rps) ==
  IF index < 1 THEN RatOf(Max(0, target_rps))
  ELSE get_rate(p.stage_plugins[index], elapsed - p.stage_starts[index], target_rps)

\* SequenceDistribution._elapsed_for_behavior with repeat taking elapsed as
\* it is
_elapsed_for_behavior_no_wrap(p, elapsed, target_rps) ==
  IF p.post_behavior = "repeat"
  THEN [none |-> FALSE, elapsed |-> elapsed, fallback |-> target_rps]
  ELSE IF elapsed < p.total_duration
  THEN [none |-> FALSE, elapsed |-> elapsed, fallback |-> target_rps]
  ELSE IF p.post_behavior = "zero"
  THEN [none |-> FALSE, elapsed |-> elapsed, fallback |-> 0]
  ELSE IF p.post_behavior = "hold_last"
  THEN [none |-> TRUE, elapsed |-> elapsed, fallback |-> target_rps]
  ELSE [none |-> FALSE, elapsed |-> elapsed, fallback |-> target_rps]

\* SequenceDistribution._elapsed_for_behavior: (elapsed, fallback), or None
_elapsed_for_behavior(p, elapsed, target_rps) ==
  IF p.post_behavior = "repeat"
  THEN [none |-> FALSE, elapsed |-> elapsed % p.total_duration, fallback |-> target_rps]
  ELSE IF elapsed < p.total_duration
  THEN [none |-> FALSE, elapsed |-> elapsed, fallback |-> target_rps]
  ELSE IF p.post_behavior = "zero"
  THEN [none |-> FALSE, elapsed |-> elapsed, fallback |-> 0]
  ELSE IF p.post_behavior = "hold_last"
  THEN [none |-> TRUE, elapsed |-> elapsed, fallback |-> target_rps]
  ELSE [none |-> FALSE, elapsed |-> elapsed, fallback |-> target_rps]

\* SequenceDistribution._find_active_stage
_find_active_stage(p, elapsed) ==
  LET hits == {i \in 1..Len(p.stage_starts) : elapsed < p.stage_starts[i] + p.stage_durations[i]}
  IN IF hits = {} THEN Len(p.stage_plugins)
     ELSE CHOOSE i \in hits : \A j \in hits : i <= j

\* SequenceDistribution.get_rate with the test "fallback_rate == 0.0" left out
sequence_get_rate_no_zero_test(p, time_elapsed, target_rps) ==
  IF p.parse_error \/ p.stage_plugins = <<>> THEN RatOf(Max(0, target_rps))
  ELSE IF p.total_duration <= 0 THEN RatOf(Max(0, target_rps))
  ELSE LET eb == _elapsed_for_behavior(p, time_elapsed, target_rps) IN
       IF eb.none
       THEN _rate_for_stage(p, Len(p.stage_plugins), time_elapsed, target_rps)
       ELSE _rate_for_stage(p, _find_active_stage(p, eb.elapsed), eb.elapsed, target_rps)

\* SequenceDistribution.get_rate
sequence_get_rate(p, time_elapsed, target_rps) ==
  IF p.parse_error \/ p.stage_plugins = <<>> THEN RatOf(Max(0, target_rps))
  ELSE IF p.total_duration <= 0 THEN RatOf(Max(0, target_rps))
  ELSE LET eb == _elapsed_for_behavior(p, time_elapsed, target_rps) IN
       IF eb.none
       THEN _rate_for_stage(p, Len(p.stage_plugins), time_elapsed, target_rps)
       ELSE IF eb.fallback = 0 THEN RatOf(0)
       ELSE _rate_for_stage(p, _find_active_stage(p, eb.elapsed), eb.elapsed, target_rps)

\* MixDistribution._effective_target
_effective_target(p, override, target_rps) ==
  IF override # None THEN override
  ELSE IF p.target_rps # None THEN p.target_rps
  ELSE target_rps

\* the loop of MixDistribution.get_rate over the first n components
RECURSIVE MixLoop(_, _, _, _)
MixLoop(p, n, time_elapsed, target_rps) ==
  IF n = 0 THEN RatOf(0)
  ELSE RatAdd(MixLoop(p, n - 1, time_elapsed, target_rps),
              RatMul(p.normalized_weights[n],
                     get_rate(p.component_plugins[n], time_elapsed,
                              _effective_target(p, p.component_targets[n], target_rps))))

\* MixDistribution.get_rate (the normalized weights of a non-empty list have a
\* positive sum)
mix_get_rate(p, time_elapsed, target_rps) ==
  IF p.parse_error \/ p.component_plugins = <<>> \/ p.normalized_weights = <<>>
  THEN RatOf(Max(0, target_rps))
  ELSE RatMax0(MixLoop(p, Len(p.component_plugins), time_elapsed, target_rps))

\* get_rate of an initialized plugin
get_rate(p, time_elapsed, target_rps) ==
  CASE p.name = "constant" -> RatOf(constant_get_rate(p, time_elapsed, target_rps))
    [] p.name = "linear" -> linear_get_rate(p, time_elapsed, target_rps)
    [] p.name = "step" -> step_get_rate(p, time_elapsed, target_rps)
    [] p.name = "sequence" -> sequence_get_rate(p, time_elapsed, target_rps)
    [] p.name = "mix" -> mix_get_rate(p, time_elapsed, target_rps)

\* ---- validate
RECURSIVE validate(_)

\* SequenceDistribution.validate
sequence_validate(p) ==
  /\ ~p.parse_error
  /\ p.stage_plugins # <<>>
  /\ p.post_behavior \in {"hold_last", "zero", "repeat"}
  /\ \A i \in 1..Len(p.stage_plugins) :
       /\ p.stage_durations[i] > 0
       /\ p.stage_starts[i] >= 0
       /\ validate(p.stage_plugins[i])
  /\ p.total_duration > 0

\* MixDistribution.validate
mix_validate(p) ==
  /\ ~p.parse_error
  /\ p.component_plugins # <<>>
  /\ p.target_rps = None \/ p.target_rps > 0
  /\ \A i \in 1..Len(p.component_plugins) :
       /\ p.component_weights[i] > 0
       /\ p.component_targets[i] = None \/ p.component_targets[i] > 0
       /\ validate(p.component_plugins[i])
  /\ p.normalized_weights # <<>>

\* validate() of an initialized plugin
validate(p) ==
  CASE p.name = "constant" -> constant_validate(p)
    [] p.name = "linear" -> linear_validate(p)
    [] p.name = "step" -> step_validate(p)
    [] p.name = "sequence" -> sequence_validate(p)
    [] p.name = "mix" -> mix_validate(p)

\* ------------------------------------------------------ evaluating a shape
\* the shapes and arguments an evaluation is made with
Times == 0..MaxTime
Targets == {-2, 0, 1, 2}
StepPairs == {<<0, 1>>, <<1, 3>>, <<2, 0>>}
StepShapes ==
  {Step(steps, default_rps) : steps \in SeqsOf(StepPairs, 0, MaxSteps), default_rps \in {0, 2}}
StageShapes ==
  {Constant(None), Constant(3), Linear(2), Step(<<<<1, 3>>, <<0, 1>>>>, 0),
   [NoShape EXCEPT !.name = "unknown"]}
ComponentShapes ==
  {Constant(None), Constant(3), Linear(2), [Constant(None) EXCEPT !.target_rps = 1]}
SequenceShapes ==
  {Sequence(stages, post_behavior) :
     stages \in SeqsOf([duration_seconds : 0..2, distribution : StageShapes], 0, MaxStages),
     post_behavior \in {"hold_last", "zero", "repeat"}}
MixShapes ==
  {Mix(components, target_rps) :
     components \in SeqsOf([weight : 0..2, distribution : ComponentShapes], 0, MaxComponents),
     target_rps \in {None, 2}}
EvalShapes ==
  {Constant(None), Constant(3), Constant(0), Linear(2)}
    \cup StepShapes \cup SequenceShapes \cup MixShapes

\* the variables of the run while no run has been created
RunUnstarted ==
  /\ clock = 0
  /\ exists = FALSE
  /\ state = RunState
  /\ d = InitD
  /\ task = [t \in Tasks |-> [pc |-> "none", start |-> 0]]
  /\ permits = 0
  /\ client = "none"
  /\ bc = [n |-> 0, last |-> "none", last_users |-> 0]
  /\ proc = [st |-> "none", sigterm |-> FALSE, rc |-> 0]
  /\ stop = [pc |-> "idle", result |-> "none"]
  /\ g = InitG
  /\ call = InitCall
  /\ resp = "none"

runVars == <<clock, exists, state, d, task, permits, client, bc, proc, stop, g, call, resp>>

\* a plugin class is instantiated and is about to be given its config
ShapeInit ==
  /\ RunUnstarted
  /\ ev \in {[InitEv EXCEPT !.pc = "config", !.plugin = c] : c \in EvalShapes}
  /\ reg = InitReg
  /\ mgr = InitMgr
  /\ fs = InitFs
  /\ tb = InitTb
  /\ ps = InitPs

\* plugin.initialize(config)
ShapeInitialize ==
  /\ ev.pc = "config"
  /\ ev' = [ev EXCEPT !.pc = "initialized", !.plugin = initialize(ev.plugin)]
  /\ UNCHANGED <<runVars, reg, mgr, fs, tb, ps>>

\* plugin.validate()
ShapeValidate ==
  /\ ev.pc = "initialized"
  /\ ev' = [ev EXCEPT !.pc = "validated", !.valid = validate(ev.plugin)]
  /\ UNCHANGED <<runVars, reg, mgr, fs, tb, ps>>

\* plugin.get_rate(time_elapsed, target_rps)
ShapeGetRate(time_elapsed, target_rps) ==
  /\ ev.pc \in {"validated", "evaluated"}
  /\ ev' = [ev EXCEPT !.pc = "evaluated", !.t = time_elapsed, !.r = target_rps,
                      !.rate = get_rate(ev.plugin, time_elapsed, target_rps)]
  /\ UNCHANGED <<runVars, reg, mgr, fs, tb, ps>>

ShapeNext ==
  \/ ShapeInitialize
  \/ ShapeValidate
  \/ \E time_elapsed \in Times, target_rps \in Targets : ShapeGetRate(time_elapsed, target_rps)

ShapeSpec == ShapeInit /\ [][ShapeNext]_vars

\* ------------------------------------------------------ the shape registry
\* the entry points of group primes.distributions that the installation may
\* declare: a shape of another package, and a built-in shape declared by the
\* package itself
EntryPointNames == {"custom", "constant"}

\* the class an entry point of that name loads
EntryPointClass(name) == IF name \in BuiltinNames THEN "builtin" ELSE "plugin"

\* register_builtin_distributions: seven registry.register calls
register_builtin_distributions(plugins) ==
  [n \in ShapeNames |-> IF n \in BuiltinNames THEN "builtin" ELSE plugins[n]]

\* the module is imported, the application has not started
RegInit ==
  /\ RunUnstarted
  /\ ev = InitEv
  /\ reg = InitReg
  /\ mgr = InitMgr
  /\ fs = InitFs
  /\ tb = InitTb
  /\ ps = InitPs

\* lifespan: load_plugins() registers the entry points that discover_plugins
\* found and could import
RegStartup(eps) ==
  /\ ~reg.started
  /\ reg' = [reg EXCEPT !.started = TRUE,
                        !.plugins = [n \in ShapeNames |->
                                       IF n \in eps THEN EntryPointClass(n) ELSE @[n]]]
  /\ UNCHANGED <<runVars, ev, mgr, fs, tb, ps>>

\* registry.get(name), as GET /plugins/{name} calls it
RegGet(name) ==
  /\ reg.started
  /\ reg' = [reg EXCEPT !.asked = name, !.result = reg.plugins[name]]
  /\ UNCHANGED <<runVars, ev, mgr, fs, tb, ps>>

\* registry.list_all(), as GET /distributions and GET /plugins call it
RegListAll ==
  /\ reg.started
  /\ reg' = [reg EXCEPT !.has_listed = TRUE,
                        !.listed = {n \in ShapeNames : reg.plugins[n] # "none"}]
  /\ UNCHANGED <<runVars, ev, mgr, fs, tb, ps>>

\* get_plugin_class(name), as instantiate_plugin, validate_distribution_config
\* and the mix and sequence shapes call it
get_plugin_class(name) ==
  /\ reg.started
  /\ LET plugins == IF reg.plugins[name] = "none"
                    THEN register_builtin_distributions(reg.plugins)
                    ELSE reg.plugins
     IN reg' = [reg EXCEPT !.plugins = plugins, !.asked = name, !.result = plugins[name]]
  /\ UNCHANGED <<runVars, ev, mgr, fs, tb, ps>>

RegNext ==
  \/ \E eps \in SUBSET EntryPointNames : RegStartup(eps)
  \/ \E name \in ShapeNames : RegGet(name)
  \/ RegListAll
  \/ \E name \in ShapeNames : get_plugin_class(name)

RegSpec == RegInit /\ [][RegNext]_vars

\* ------------------------------------------------------ the connection manager
Sockets == 1..MaxSockets

\* the websocket handler subscribes its socket: manager.connect.  A socket
\* whose send has failed is closed and does not subscribe again.
MgrConnect(s) ==
  /\ mgr.pc \in {"idle", "sending"}
  /\ s \notin mgr.conns
  /\ s \notin mgr.failed
  /\ mgr' = [mgr EXCEPT !.conns = @ \cup {s}, !.mapped = TRUE,
                        !.touched = @ \/ (mgr.pc = "sending" /\ ~mgr.stale)]
  /\ UNCHANGED <<runVars, ev, reg, fs, tb, ps>>

\* manager.disconnect(websocket, test_id)
disconnect(m, s) ==
  IF ~m.mapped THEN m
  ELSE LET conns == m.conns \ {s} IN
       [m EXCEPT !.conns = conns, !.mapped = conns # {}]

\* the websocket handler unsubscribes its socket or ends
MgrDisconnect(s) ==
  /\ mgr.pc \in {"idle", "sending"}
  /\ LET m == disconnect(mgr, s) IN
     mgr' = [m EXCEPT !.stayed = @ \ {s},
                      !.stale = @ \/ (mgr.pc = "sending" /\ mgr.mapped /\ ~m.mapped),
                      !.touched = @ \/ (mgr.pc = "sending" /\ ~mgr.stale /\ m.conns # mgr.conns)]
  /\ UNCHANGED <<runVars, ev, reg, fs, tb, ps>>

\* the for loop of broadcast asks the set iterator for its next connection:
\* RuntimeError when the size of the set is not the size it was created for,
\* else the await of send_json to a connection not yet yielded, else the end
\* of the loop, the disconnect of the connections whose send failed, and the
\* return.  After a modification that kept the size the iterator may also
\* miss what is left.
BroadcastNext(m) ==
  IF m.stale \/ Cardinality(m.conns) # m.it_used
  THEN {[m EXCEPT !.pc = "raised"]}
  ELSE LET rest == m.conns \ m.yielded
           done == LET conns == IF m.mapped THEN m.conns \ m.disconnected ELSE m.conns
                   IN [m EXCEPT !.pc = "returned", !.conns = conns,
                                !.mapped = m.mapped /\ conns # {}]
       IN {[m EXCEPT !.pc = "sending", !.cur = c, !.yielded = @ \cup {c}] : c \in rest}
            \cup (IF rest = {} \/ m.touched THEN {done} ELSE {})

\* manager.broadcast(test_id, message) is called: up to its first await, or
\* to its return
MgrBroadcast ==
  /\ mgr.pc = "idle"
  /\ IF ~mgr.mapped
     THEN mgr' = [mgr EXCEPT !.pc = "returned", !.at_call = {}, !.stayed = {},
                             !.delivered = {}]
     ELSE mgr' \in BroadcastNext([mgr EXCEPT !.it_used = Cardinality(mgr.conns),
                                             !.yielded = {}, !.stale = FALSE,
                                             !.touched = FALSE, !.disconnected = {},
                                             !.at_call = mgr.conns, !.stayed = mgr.conns,
                                             !.delivered = {}])
  /\ UNCHANGED <<runVars, ev, reg, fs, tb, ps>>

\* the awaited send_json returns or raises, and the loop goes on
MgrSendDone(ok) ==
  /\ mgr.pc = "sending"
  /\ mgr' \in BroadcastNext(
       IF ok THEN [mgr EXCEPT !.delivered = @ \cup {mgr.cur}]
       ELSE [mgr EXCEPT !.disconnected = @ \cup {mgr.cur}, !.failed = @ \cup {mgr.cur}])
  /\ UNCHANGED <<runVars, ev, reg, fs, tb, ps>>

\* the caller of broadcast goes on
MgrBroadcastOver ==
  /\ mgr.pc \in {"returned", "raised"}
  /\ mgr' = [mgr EXCEPT !.pc = "idle"]
  /\ UNCHANGED <<runVars, ev, reg, fs, tb, ps>>

MgrInit ==
  /\ RunUnstarted
  /\ ev = InitEv
  /\ reg = InitReg
  /\ mgr = InitMgr
  /\ fs = InitFs
  /\ tb = InitTb
  /\ ps = InitPs

MgrNext ==
  \/ \E s \in Sockets : MgrConnect(s)
  \/ \E s \in Sockets : MgrDisconnect(s)
  \/ MgrBroadcast
  \/ \E ok \in BOOLEAN : MgrSendDone(ok)
  \/ MgrBroadcastOver

MgrSpec == MgrInit /\ [][MgrNext]_vars

\* ------------------------------------------------------------ the presets store
\* the payload of a save is written chunk by chunk
Chunks == 1..MaxChunks

\* _atomic_write: the path the payload is first written to
temp_path_is_file_path == "file"
temp_path == "temp"

\* Path.write_text as far as it got: open() creates or truncates the file,
\* then the next chunk of the payload is written
_write_text(files, path, payload) ==
  IF ~(files[path].exists /\ files[path].v = payload.v)
  THEN [files EXCEPT ![path] = [payload EXCEPT !.written = 0]]
  ELSE [files EXCEPT ![path].written = @ + 1]

\* Path.replace: one rename
_replace(files, src, dst) ==
  IF src = dst THEN files
  ELSE [files EXCEPT ![dst] = files[src], ![src] = NoFile]

\* _save: json.dumps of the presets, and _atomic_write up to its first write
FsSave(len) ==
  /\ fs.pc = "idle"
  /\ fs.n < MaxSaves
  /\ fs' = [fs EXCEPT !.pc = "write", !.n = @ + 1, !.old = fs.files.file,
                      !.new = [exists |-> TRUE, v |-> fs.n + 1, written |-> len, len |-> len],
                      !.fault = "none"]
  /\ UNCHANGED <<runVars, ev, reg, mgr, tb, ps>>

\* one step of self._write_text(temp_path, payload)
FsWrite ==
  /\ fs.pc = "write"
  /\ LET files == _write_text(fs.files, temp_path, fs.new) IN
     fs' = [fs EXCEPT !.files = files,
                      !.pc = IF files[temp_path].written = files[temp_path].len
                             THEN "replace" ELSE "write"]
  /\ UNCHANGED <<runVars, ev, reg, mgr, tb, ps>>

\* write_text raises, before or after it has created the file
FsWriteFails ==
  /\ fs.pc = "write"
  /\ fs' = [fs EXCEPT !.pc = "except", !.fault = "write"]
  /\ UNCHANGED <<runVars, ev, reg, mgr, tb, ps>>

\* self._replace(temp_path, self._file_path), and _atomic_write returns
FsReplace ==
  /\ fs.pc = "replace"
  /\ fs' = [fs EXCEPT !.files = _replace(fs.files, temp_path, "file"), !.pc = "saved"]
  /\ UNCHANGED <<runVars, ev, reg, mgr, tb, ps>>

\* the rename raises
FsReplaceFails ==
  /\ fs.pc = "replace"
  /\ fs' = [fs EXCEPT !.pc = "except", !.fault = "replace"]
  /\ UNCHANGED <<runVars, ev, reg, mgr, tb, ps>>

\* except Exception: unlink the temporary file if it exists, and raise
FsExcept ==
  /\ fs.pc = "except"
  /\ fs' = [fs EXCEPT !.files = IF fs.files[temp_path].exists
                                THEN [fs.files EXCEPT ![temp_path] = NoFile]
                                ELSE fs.files,
                      !.pc = "failed"]
  /\ UNCHANGED <<runVars, ev, reg, mgr, tb, ps>>

\* the process dies at a step of the save
FsCrash ==
  /\ fs.pc \in {"write", "replace", "except"}
  /\ fs' = [fs EXCEPT !.pc = "crashed", !.fault = "crash"]
  /\ UNCHANGED <<runVars, ev, reg, mgr, tb, ps>>

\* the caller of _save goes on, with the value or with the exception
FsReturn ==
  /\ fs.pc \in {"saved", "failed"}
  /\ fs' = [fs EXCEPT !.pc = "idle"]
  /\ UNCHANGED <<runVars, ev, reg, mgr, tb, ps>>

\* a new process opens the store: the temporary file of the dead one stays
\* on disk under its own name
FsRestart ==
  /\ fs.pc = "crashed"
  /\ fs' = [fs EXCEPT !.pc = "idle",
                      !.stray = IF fs.files.temp.exists THEN @ + 1 ELSE @,
                      !.files = [@ EXCEPT !.temp = NoFile]]
  /\ UNCHANGED <<runVars, ev, reg, mgr, tb, ps>>

FsInit ==
  /\ RunUnstarted
  /\ ev = InitEv
  /\ reg = InitReg
  /\ mgr = InitMgr
  /\ fs = InitFs
  /\ tb = InitTb
  /\ ps = InitPs

FsNext ==
  \/ \E len \in Chunks : FsSave(len)
  \/ FsWrite
  \/ FsWriteFails
  \/ FsReplace
  \/ FsReplaceFails
  \/ FsExcept
  \/ FsCrash
  \/ FsReturn
  \/ FsRestart

FsSpec == FsInit /\ [][FsNext]_vars

\* ------------------------------------------------------ shape runs left alone
\* the configs that start_test lets through and that run in shape mode
ShapeRunConfigs ==
  {config \in RunConfigs :
     ~start_test_rejects(config) /\ _run_test_mode(config) = "shape"}

\* a reading of time.time() taken e ticks ago, one tick later
Earlier(e) == Max(0, e - 1)

\* time.time() advances, without end: up to MaxClock the clock counts, from
\* then on the clock stays and every reading of it that the dispatcher and
\* the tasks still hold moves one tick into the past, as far as tick 0
TimePasses ==
  /\ exists
  /\ d.pc \notin {"scheduled", "done", "raised"}
  /\ IF clock < MaxClock
     THEN /\ clock' = clock + 1
          /\ UNCHANGED <<d, task>>
     ELSE /\ clock' = clock
          /\ d' = [d EXCEPT !.start = Earlier(@), !.last_tick = Earlier(@),
                            !.last_broadcast = Earlier(@), !.wake = Earlier(@)]
          /\ task' = [t \in Tasks |-> [task[t] EXCEPT !.start = Earlier(@)]]
  /\ UNCHANGED <<exists, state, permits, client, bc, proc, stop, g, call, resp, ev, reg, mgr, fs, tb, ps>>

\* a shape run from POST /start to its end, with no stop_test
ShapeRunNext ==
  \/ \E config \in ShapeRunConfigs : StartTest(config)
  \/ ExecStart
  \/ DistWake
  \/ DistClientClosed
  \/ DistGathered
  \/ DistReturn
  \/ \E t \in Tasks : TaskStart(t)
  \/ \E t \in Tasks : TaskWake(t)
  \/ \E t \in Tasks, outcome \in Outcomes : TaskResponse(t, outcome)
  \/ \E t \in Tasks : TaskDiscard(t)
  \/ ExecDone
  \/ TimePasses

\* the event loop runs every coroutine that is ready, every sleep and every
\* HTTP call returns, and time goes on
ShapeRunFairness ==
  /\ WF_vars(ExecStart)
  /\ WF_vars(DistWake)
  /\ WF_vars(DistClientClosed)
  /\ WF_vars(DistGathered)
  /\ WF_vars(DistReturn)
  /\ WF_vars(ExecDone)
  /\ WF_vars(TimePasses)
  /\ \A t \in Tasks :
       /\ WF_vars(TaskStart(t))
       /\ WF_vars(TaskWake(t))
       /\ WF_vars(\E outcome \in Outcomes : TaskResponse(t, outcome))
       /\ WF_vars(TaskDiscard(t))

ShapeRunSpec == Init /\ [][ShapeRunNext]_vars /\ ShapeRunFairness

\* ------------------------------------------------------ the token bucket
\* what an iteration of the dispatcher loop reads: the rate of the shape, and
\* the time since the previous iteration (time.time() may stand still or
\* step back between two readings)
Rates == 0..MaxRate
TickDeltas == -1..MaxDelta

\* the run as _schedule_distribution_tasks finds it: the tokens of the bucket,
\* the permits the semaphore has left, the request cap, no task created yet
BucketWorld(free, max_requests) ==
  [W EXCEPT !.d.tokens = tb.tokens, !.d.ntasks = 0, !.permits = free,
            !.state.config.num_requests = max_requests]

\* the head of an iteration: get_rate, tick_delta, _update_tokens, and the
\* idle sleep when the rate is not positive
TbUpdate(current_rps, tick_delta) ==
  /\ tb.pc \in {"start", "slept"}
  /\ LET tokens == _update_tokens(tb.tokens, current_rps, tick_delta) IN
     tb' = [pc |-> IF current_rps <= 0 THEN "slept" ELSE "updated",
            tokens |-> tokens, current_rps |-> current_rps, tick_delta |-> tick_delta,
            before |-> tb.tokens, after |-> tokens, spawned |-> 0]
  /\ UNCHANGED <<runVars, ev, reg, mgr, fs, ps>>

\* the rest of the iteration: _schedule_distribution_tasks, and the sleep
TbSchedule(free, max_requests) ==
  /\ tb.pc = "updated"
  /\ LET w == _schedule_distribution_tasks(BucketWorld(free, max_requests)) IN
     tb' = [tb EXCEPT !.pc = "slept", !.tokens = w.d.tokens, !.spawned = w.d.ntasks]
  /\ UNCHANGED <<runVars, ev, reg, mgr, fs, ps>>

TbInit ==
  /\ RunUnstarted
  /\ ev = InitEv
  /\ reg = InitReg
  /\ mgr = InitMgr
  /\ fs = InitFs
  /\ tb = InitTb
  /\ ps = InitPs

TbNext ==
  \/ \E current_rps \in Rates, tick_delta \in TickDeltas : TbUpdate(current_rps, tick_delta)
  \/ \E free \in 0..1, max_requests \in {None, 1} : TbSchedule(free, max_requests)

TbSpec == TbInit /\ [][TbNext]_vars

\* ------------------------------------------------------------ the presets API
Creates == 1..MaxCreates
\* the worker processes of the API server (API_WORKERS)
Workers == 1..MaxWorkers

\* a handler of the routers runs on the event loop of its worker without an
\* await: no other handler of that worker is part-way
WorkerFree(w) ==
  \A r \in Creates : ps.req[r].worker = w => ps.req[r].pc \in {"none", "done"}

\* PresetsStore._load
_load(file) == file

\* POST /presets reaches worker w: _get_store() builds a PresetsStore, whose
\* __init__ makes a Lock and loads the file
PsGetStore(r, w) ==
  /\ ps.req[r].pc = "none"
  /\ WorkerFree(w)
  /\ ps' = [ps EXCEPT !.req[r] = [pc |-> "store", worker |-> w,
                                  presets |-> _load(ps.file), locked |-> FALSE]]
  /\ UNCHANGED <<runVars, ev, reg, mgr, fs, tb>>

\* create_preset: with self._lock, validate, append the new Preset
PsAppend(r) ==
  /\ ps.req[r].pc = "store"
  /\ ~ps.req[r].locked
  /\ ps' = [ps EXCEPT !.req[r].pc = "appended", !.req[r].locked = TRUE,
                      !.req[r].presets = @ \cup {r}]
  /\ UNCHANGED <<runVars, ev, reg, mgr, fs, tb>>

\* create_preset: self._save(), leave the lock, return; the handler answers
PsSave(r) ==
  /\ ps.req[r].pc = "appended"
  /\ ps' = [ps EXCEPT !.file = ps.req[r].presets, !.req[r].pc = "done",
                      !.req[r].locked = FALSE]
  /\ UNCHANGED <<runVars, ev, reg, mgr, fs, tb>>

\* GET /presets on worker w: a new store, list_presets
PsList(w) ==
  /\ WorkerFree(w)
  /\ ps' = [ps EXCEPT !.has_listed = TRUE, !.listed = _load(ps.file),
                      !.answered = {r \in Creates : ps.req[r].pc = "done"}]
  /\ UNCHANGED <<runVars, ev, reg, mgr, fs, tb>>

PsInit ==
  /\ RunUnstarted
  /\ ev = InitEv
  /\ reg = InitReg
  /\ mgr = InitMgr
  /\ fs = InitFs
  /\ tb = InitTb
  /\ ps = InitPs

PsNext ==
  \/ \E r \in Creates, w \in Workers : PsGetStore(r, w)
  \/ \E r \in Creates : PsAppend(r)
  \/ \E r \in Creates : PsSave(r)
  \/ \E w \in Workers : PsList(w)

PsSpec == PsInit /\ [][PsNext]_vars

TypeOK ==
  /\ clock \in 0..MaxClock
  /\ state.status \in {"pending", "running", "stopping", "stopped", "completed", "failed"}
  /\ state.in_flight \in Nat
  /\ permits \in Nat


\* ====================================================== properties
Terminal == state.status \in TERMINAL_STATUSES

InternalMode == g.mode \in {"paced", "shape"}

\* the request tasks that are inside client.make_api_call
Executing ==
  Cardinality({t \in Tasks : task[t].pc \in {"inflight", "doomed"}})
    + (IF d.pc = "p_request" THEN 1 ELSE 0)

NumSet == state.config.num_requests \notin {None, 0}

ShapeOrTarget == state.config.distribution.name # "none" \/ state.config.target_rps # None

\* C1: in paced and shape mode success_count + failure_count never exceeds
\* request_count, and every request is counted in request_count before it is
\* counted in success_count or failure_count.
C1_CountedBeforeResolved ==
  (g.mode \in {"none", "paced", "shape"}) =>
    /\ state.metrics.success_count + state.metrics.failure_count
         <= state.metrics.request_count
    /\ g.ordered
    /\ g.resolved \subseteq g.counted

C1_Witness ==
  /\ g.mode = "shape"
  /\ Cardinality(g.resolved) = 1
  /\ Cardinality(g.counted) = 2
  /\ g.stopAccepted

\* C2: in every terminal status of a paced or shape run success_count +
\* failure_count equals request_count.
C2_TerminalEquality ==
  (InternalMode /\ Terminal) =>
    state.metrics.success_count + state.metrics.failure_count
      = state.metrics.request_count

\* C3: while the run is running 0 <= in_flight <= user_count, the number of
\* request tasks inside an HTTP call never exceeds user_count, and every task
\* that left its request has given its permit back.
C3_InFlightBounded ==
  (exists /\ state.config.user_count >= 1) =>
    /\ Executing <= state.config.user_count
    /\ state.status = "running" =>
         (0 <= state.in_flight /\ state.in_flight <= state.config.user_count)
    /\ (g.mode = "shape" /\ client # "none") =>
         permits + Cardinality({t \in Tasks : task[t].pc \in {"inflight", "doomed"}})
           = state.config.user_count

C3_Witness ==
  /\ state.status = "running"
  /\ state.config.user_count = 1
  /\ state.in_flight = 1
  /\ \E t \in Tasks : task[t].pc = "waiting"
  /\ \E t \in Tasks : task[t].pc = "inflight"

\* C4: in every terminal status of a paced or shape run in_flight = 0 and
\* active_users_estimate = 0, also while request tasks created before a stop
\* are still running or waiting for a permit.
C4_TerminalIdle ==
  (InternalMode /\ Terminal) =>
    (state.in_flight = 0 /\ state.metrics.active_users_estimate = 0)

AllowedEdges ==
  {<<"pending", "running">>, <<"running", "completed">>, <<"running", "failed">>,
   <<"running", "stopping">>, <<"stopping", "stopped">>}

\* C5: every change of status follows pending -> running, running ->
\* completed | failed | stopping, or stopping -> stopped.
C5_StatusEdges == g.edges \subseteq AllowedEdges

\* C6: request_count, success_count and failure_count never decrease, in any
\* mode and whatever lines the external driver prints.
C6_Monotonic ==
  [][/\ state'.metrics.request_count >= state.metrics.request_count
     /\ state'.metrics.success_count >= state.metrics.success_count
     /\ state'.metrics.failure_count >= state.metrics.failure_count]_vars

C6_Witness ==
  /\ g.mode = "external"
  /\ g.lowerLine
  /\ state.metrics.request_count = 2
  /\ state.metrics.failure_count = 2

\* C7: once the status is terminal the metrics never change again.
C7_Frozen == [][Terminal => state'.metrics = state.metrics]_vars

\* C8 as stated: paced exactly when num_requests is set and no shape and no
\* target_rps; shape whenever a shape or target_rps is set; external otherwise.
C8_ModeAsStated ==
  g.mode # "none" =>
    g.mode = IF state.config.num_requests # None /\ ~ShapeOrTarget THEN "paced"
             ELSE IF ShapeOrTarget THEN "shape"
             ELSE "external"

\* C8 amended: paced exactly when num_requests is set (not 0) and no shape and
\* no target_rps; shape exactly when num_requests is set (not 0) and a shape
\* or target_rps is set; external exactly when num_requests is not set (or 0).
C8_Mode ==
  g.mode # "none" =>
    /\ g.mode = "paced" <=> (NumSet /\ ~ShapeOrTarget)
    /\ g.mode = "shape" <=> (NumSet /\ ShapeOrTarget)
    /\ g.mode = "external" <=> ~NumSet

C8_Witness ==
  /\ g.mode = "external"
  /\ state.config.duration_seconds # None
  /\ state.config.distribution.name # "none"
  /\ state.config.target_rps # None

C10_ShapeCap ==
  (/\ g.mode = "shape"
   /\ d.pc = "done"
   /\ state.config.duration_seconds = None
   /\ state.config.target_rps # None /\ state.config.target_rps > 0
   /\ state.config.distribution.name \in {"none", "constant"}
   /\ state.config.distribution.rps = None
   /\ g.allOk
   /\ ~g.stopAccepted) =>
    /\ state.status = "completed"
    /\ state.metrics.request_count = state.config.num_requests
    /\ state.metrics.success_count = state.config.num_requests

\* stop_test was accepted while the status was running
StoppedWhileRunning == <<"running", "stopping">> \in g.edges

\* C11: after a stop accepted while running, the loops of the paced and the
\* distribution mode are left at their next iteration and create no further
\* request; the run ends stopped (also when its body raised), with in_flight
\* = 0 and active_users_estimate = 0 and a last broadcast carrying stopped.
C11_StopWins ==
  /\ [](StoppedWhileRunning /\ d.pc \in {"x_broadcast", "done"} =>
          /\ state.status = "stopped"
          /\ state.in_flight = 0
          /\ state.metrics.active_users_estimate = 0
          /\ bc.last = "stopped"
          /\ bc.last_users = 0)
  /\ [][(StoppedWhileRunning /\ InternalMode) =>
          /\ d'.ntasks = d.ntasks
          /\ g.mode = "paced" =>
               state'.metrics.request_count = state.metrics.request_count
          /\ (d.pc \in {"p_sleep", "d_sleep"} /\ d'.pc # d.pc) =>
               d'.pc \in {"p_aexit", "d_aexit"}]_vars

C11_Witness ==
  /\ StoppedWhileRunning
  /\ g.mode = "shape"
  /\ d.pc = "done"
  /\ state.metrics.request_count = 2
  /\ state.config.num_requests = 2
  /\ state.metrics.failure_count = 0

\* the attempts of the call that have ended
Finished == call.pc \in {"returned", "raised"}

\* C12: once a stop is requested, a request that sleeps in its retry backoff
\* dispatches no further HTTP attempt.
C12_BackoffObservesStop ==
  [][(_stop_requested(state) /\ call.pc = "backoff") =>
       call'.attempts = call.attempts]_vars

\* C13: with per-attempt outcomes among timeout, network error, 5xx and
\* success, attempts end one after another until the first success; the call
\* returns after k+1 attempts when the first success is attempt k <=
\* max_retries, raises after max_retries + 1 attempts when there is none, and
\* never makes more than max_retries + 1 attempts.
C13_RetryCount ==
  (/\ client = "open"
   /\ \A i \in DOMAIN call.log : call.log[i] \in {"timeout", "network", "500", "200"}) =>
    /\ call.attempts <= call.max_retries + 1
    /\ call.attempts = call.attempt + (IF call.pc = "idle" THEN 0 ELSE 1)
    /\ Len(call.log) = call.attempts - (IF call.pc = "dispatched" THEN 1 ELSE 0)
    /\ \A i \in DOMAIN call.log : call.log[i] = "200" => i = Len(call.log)
    /\ (call.log # <<>> /\ call.log[Len(call.log)] = "200") => call.pc = "returned"
    /\ call.pc = "returned" =>
         /\ call.log[Len(call.log)] = "200"
         /\ state.metrics.success_count = 1 /\ state.metrics.failure_count = 0
    /\ call.pc = "raised" =>
         /\ call.attempts = call.max_retries + 1
         /\ state.metrics.success_count = 0 /\ state.metrics.failure_count = 1
    /\ call.pc = "backoff" => call.backoff = Min(Pow2(call.attempt), 10)

C13_Witness ==
  /\ call.pc = "returned"
  /\ call.max_retries = 2
  /\ call.log = <<"500", "500", "200">>
  /\ call.attempts = 3
  /\ state.metrics.success_count = 1
  /\ state.metrics.failure_count = 0

\* C14: a request whose first response is 4xx makes exactly one HTTP attempt
\* and is recorded as exactly one failure, whatever max_retries is.
C14_No4xxRetry ==
  (call.log # <<>> /\ call.log[1] = "404") =>
    /\ call.attempts = 1
    /\ Finished => (state.metrics.failure_count = 1 /\ state.metrics.success_count = 0)

\* C16: a finished request has incremented exactly one of success_count and
\* failure_count, once, and success_count exactly when the final response
\* status is in the 2xx range.
C16_Classification ==
  Finished =>
    /\ state.metrics.success_count + state.metrics.failure_count = 1
    /\ state.metrics.success_count = 1 <=>
         (call.pc = "returned" /\ call.log[Len(call.log)] \in {"200", "204"})

\* C15: a request that ends in an exception (exhausted retries included)
\* increments failure_count once and nothing else, gives back its permit,
\* decrements in_flight, leaves the status and the dispatcher as they are; a
\* paced run that is not stopped still issues all its requests.
C15_FailureContained ==
  /\ [][(InternalMode /\ state'.metrics.failure_count > state.metrics.failure_count) =>
          /\ state'.metrics.failure_count = state.metrics.failure_count + 1
          /\ state'.metrics.success_count = state.metrics.success_count
          /\ state'.status = state.status
          /\ g.mode = "shape" =>
               /\ d' = d
               /\ IF \E t \in Tasks : task[t].pc \in {"inflight", "doomed"}
                                       /\ task'[t].pc = "finished"
                  THEN /\ permits' = permits + 1
                       /\ state'.in_flight = Max(0, state.in_flight - 1)
                  ELSE /\ permits' = permits
                       /\ state'.in_flight = state.in_flight
          /\ g.mode = "paced" =>
               /\ state'.in_flight = Max(0, state.in_flight - 1)
               /\ d'.pc \in {"p_broadcast", "p_sleep"}]_vars
  /\ []((g.mode = "paced" /\ ~g.stopAccepted /\ d.pc = "done") =>
          (state.status = "completed"
           /\ state.metrics.request_count = state.config.num_requests))

C15_Witness ==
  /\ g.mode = "paced"
  /\ state.status = "running"
  /\ d.pc = "p_request"
  /\ state.config.num_requests = 2
  /\ state.metrics.failure_count = 1
  /\ state.metrics.request_count = 2
  /\ state.in_flight = 1

\* the shape of the run cannot be instantiated, or fails validate()
BadShape ==
  LET plugin == _create_distribution_instance(state.config.distribution) IN
  plugin.name \notin Registered \/ ~constant_validate(plugin)

\* C18: a run whose shape cannot be instantiated or fails validate(), and
\* that is not stopped, ends failed with request_count = 0 and a final
\* broadcast carrying failed.
C18_BadShapeFails ==
  (exists /\ BadShape /\ ~g.stopAccepted /\ d.pc = "done") =>
    /\ state.status = "failed"
    /\ state.metrics.request_count = 0
    /\ bc.last = "failed"

\* C20: a start request that names a distribution without target_rps, or
\* without both num_requests and duration_seconds, is answered 400 and
\* creates no run state and schedules no dispatcher; a request answered 202
\* is none of these.
C20_RejectedStart ==
  /\ resp = "400" => (~exists /\ state = RunState /\ d = InitD)
  /\ resp = "202" =>
       /\ exists
       /\ state.config.distribution.name # "none" =>
            /\ state.config.target_rps # None
            /\ state.config.num_requests # None \/ state.config.duration_seconds # None

C20_Witness == resp = "400" /\ ~exists /\ stop.result = "false"

\* C17: a paced or shape run is failed only by the pre-flight checks of its
\* shape (no request was sent, no client opened), never by a request or by a
\* broadcast; execute_test never raises to its caller.
C17_OnlyPreflightFails ==
  /\ (InternalMode /\ state.status = "failed") =>
       (client = "none" /\ state.metrics.request_count = 0)
  /\ d.pc # "raised"

\* C19: whichever way execute_test leaves its run body, it hands a final
\* broadcast to the manager after finalization, carrying the terminal status
\* of the run and active_users_estimate = 0; every broadcast with a terminal
\* status carries active_users_estimate = 0.
C19_FinalBroadcast ==
  /\ d.pc \in {"x_broadcast", "done", "raised"} =>
       /\ Terminal
       /\ state.end_time # None
       /\ bc.n >= 1
       /\ bc.last = state.status
       /\ bc.last_users = 0
  /\ bc.last \in TERMINAL_STATUSES => bc.last_users = 0

C19_Witness ==
  /\ d.pc = "done"
  /\ g.mode = "shape"
  /\ state.status = "failed"
  /\ client = "closed"
  /\ bc.last = "failed"
  /\ state.metrics.request_count = 1

\* C21: a start request whose shape is unknown to the registry or fails its
\* own validate() is never answered 202 and never creates a run.
C21_InvalidShapeRejected ==
  /\ resp = "202" => (exists /\ ~BadShape)
  /\ resp = "400" => ~exists

\* a step that is a call of stop_test: not the resumption of a suspended
\* call, and not create_test, which starts the record of the calls on its run
StopCalled ==
  /\ stop' # stop
  /\ stop.pc = "idle" \/ stop'.pc = stop.pc
  /\ exists' = exists

\* C22: stop_test on an unknown test id returns False (404 at the endpoint)
\* and changes nothing; on a run that is completed, failed, stopped or
\* stopping it returns True and leaves the run state (status, metrics,
\* end_time) unchanged and hands nothing to the broadcast; it changes the run
\* state only for a known run in another status.
C22_StopFrame ==
  [][StopCalled =>
       /\ ~exists =>
            /\ stop'.result = "false"
            /\ UNCHANGED <<exists, state, d, task, permits, client, bc, proc>>
       /\ (exists /\ state.status \in TERMINAL_STATUSES \cup {"stopping"}) =>
            /\ stop'.result = "true"
            /\ stop'.pc = stop.pc
            /\ UNCHANGED <<exists, state, d, task, permits, client, bc, proc>>
       /\ state' # state =>
            /\ exists /\ state.status \notin TERMINAL_STATUSES \cup {"stopping"}
            /\ stop'.pc # "idle"
            /\ state'.status \in {"stopping", "stopped"}]_vars

\* a second call has returned True while the first waits for the external
\* driver to exit, the run being in status stopping
C22_Witness ==
  /\ stop.pc = "s_terminate"
  /\ stop.result = "true"
  /\ state.status = "stopping"
  /\ bc.last # "stopped"

\* a valid sequence has been evaluated
SequenceEvaluated ==
  ev.pc = "evaluated" /\ ev.valid /\ ev.plugin.name = "sequence"

\* C23: for a valid sequence with post_behavior = repeat and total duration
\* T, get_rate(t + T, r) = get_rate(t, r) for every t >= 0 and every r >= 0.
C23_RepeatPeriodic ==
  (SequenceEvaluated /\ ev.plugin.post_behavior = "repeat" /\ ev.r >= 0) =>
    get_rate(ev.plugin, ev.t + ev.plugin.total_duration, ev.r) = ev.rate

\* a repeating sequence of two stages evaluated past its end, at a time
\* where the rate is not the rate one second later
C23_Witness ==
  /\ SequenceEvaluated
  /\ ev.plugin.post_behavior = "repeat"
  /\ Len(ev.plugin.stage_plugins) = 2
  /\ ev.r > 0
  /\ ev.t >= ev.plugin.total_duration
  /\ ev.rate # get_rate(ev.plugin, ev.t + 1, ev.r)

\* the stage of an initialized sequence that covers time t
StageAt(p, t) ==
  CHOOSE i \in 1..Len(p.stage_plugins) :
    p.stage_starts[i] <= t /\ t < p.stage_starts[i] + p.stage_durations[i]

\* C24: for a valid sequence, every post_behavior, every t with
\* 0 <= t < total and every target r >= 0 (r = 0 included), get_rate(t, r) is
\* what the child of the stage covering t returns for t - start and r.
C24_ActiveStage ==
  (SequenceEvaluated /\ ev.t < ev.plugin.total_duration /\ ev.r >= 0) =>
    LET i == StageAt(ev.plugin, ev.t) IN
    ev.rate = get_rate(ev.plugin.stage_plugins[i], ev.t - ev.plugin.stage_starts[i], ev.r)

\* C25: for a valid sequence and every t >= total: with post_behavior =
\* hold_last get_rate(t, r) is what the last child returns for t - start_last
\* and r; with post_behavior = zero it is 0.
C25_PastTheEnd ==
  (SequenceEvaluated /\ ev.t >= ev.plugin.total_duration) =>
    LET p == ev.plugin
        last == Len(p.stage_plugins)
    IN /\ p.post_behavior = "hold_last" =>
            ev.rate = get_rate(p.stage_plugins[last], ev.t - p.stage_starts[last], ev.r)
       /\ p.post_behavior = "zero" => ev.rate = RatOf(0)

\* a sequence ending in a linear ramp, held past its end: the ramp goes on
\* from where the stage left it
C25_Witness ==
  /\ SequenceEvaluated
  /\ ev.plugin.post_behavior = "hold_last"
  /\ Len(ev.plugin.stage_plugins) = 2
  /\ ev.plugin.stage_plugins[1].name = "constant"
  /\ ev.plugin.stage_plugins[2].name = "linear"
  /\ ev.plugin.stage_durations = <<2, 1>>
  /\ ev.t = 3
  /\ ev.r = 2
  /\ ev.rate = RatOf(1)

\* a valid mix has been evaluated
MixEvaluated ==
  ev.pc = "evaluated" /\ ev.valid /\ ev.plugin.name = "mix"

\* what component i of an initialized mix returns for t and r
ComponentRate(p, i, t, r) ==
  get_rate(p.component_plugins[i], t, _effective_target(p, p.component_targets[i], r))

RECURSIVE SumRat(_, _)
SumRat(q, n) == IF n = 0 THEN RatOf(0) ELSE RatAdd(SumRat(q, n - 1), q[n])

\* sum of weight * rate over the components, divided by the sum of the weights
WeightedMean(p, t, r) ==
  LET n == Len(p.component_plugins)
      terms == [i \in 1..n |-> RatMul(RatOf(p.component_weights[i]), ComponentRate(p, i, t, r))]
  IN RatMul(SumRat(terms, n), Rat(1, SumSeq(p.component_weights, n)))

\* C26 as stated: a valid mix with one component returns, for every t and r,
\* what the component returns for t and its effective target; the normalized
\* weights sum to 1 and a mix of constant children is their weighted mean.
C26_MixAsStated ==
  MixEvaluated =>
    LET p == ev.plugin
        n == Len(p.component_plugins)
    IN /\ n = 1 => ev.rate = ComponentRate(p, 1, ev.t, ev.r)
       /\ SumRat(p.normalized_weights, n) = RatOf(1)
       /\ (\A i \in 1..n : p.component_plugins[i].name = "constant") =>
            ev.rate = WeightedMean(p, ev.t, ev.r)

\* a step shape has been evaluated
StepEvaluated == ev.pc = "evaluated" /\ ev.plugin.name = "step"

\* the steps of the list at or before t
StepsUpTo(steps, t) == {i \in 1..Len(steps) : steps[i][1] <= t}

\* the rate of a step with the largest time <= t, or default_rps when no step
\* has time <= t
StepRateAsStated ==
  LET steps == ev.plugin.steps
      upto == StepsUpTo(steps, ev.t)
  IN IF upto = {} THEN ev.rate = RatOf(ev.plugin.default_rps)
     ELSE \E i \in upto :
            /\ \A j \in upto : steps[j][1] <= steps[i][1]
            /\ ev.rate = RatOf(steps[i][2])

\* C27 as stated: for every list of steps in any order (the empty list
\* included), every default_rps >= 0, every t >= 0 and every r, get_rate(t, r)
\* is the rate of the step with the largest time <= t, or default_rps when no
\* step has time <= t.
C27_StepRateAsStated ==
  (StepEvaluated /\ ev.plugin.default_rps >= 0) => StepRateAsStated

\* C27: the same for every list of at least one step; for the empty list
\* get_rate(t, r) is max(0, r).
C27_StepRate ==
  (StepEvaluated /\ ev.plugin.default_rps >= 0) =>
    IF ev.plugin.steps = <<>> THEN ev.rate = RatOf(Max(0, ev.r))
    ELSE StepRateAsStated

\* steps given as [[1, 3], [0, 1]], evaluated at t = 1
C27_Witness ==
  /\ StepEvaluated
  /\ ev.plugin.steps = <<<<0, 1>>, <<1, 3>>>>
  /\ ev.plugin.default_rps = 2
  /\ ev.t = 1
  /\ ev.rate = RatOf(3)

\* C28: at every point after application startup each built-in shape name is
\* registered, whatever lookups were made before: a get of the name returns
\* its factory and list_all contains it.
C28_BuiltinsRegistered ==
  reg.started =>
    /\ \A n \in BuiltinNames : reg.plugins[n] = "builtin"
    /\ reg.asked \in BuiltinNames => reg.result = "builtin"
    /\ reg.has_listed => BuiltinNames \subseteq reg.listed

\* C29: a broadcast returns normally; when it has returned, every subscriber
\* whose send failed is out of the subscriber set and every other subscriber
\* of the call that is still subscribed has been sent the message; the test
\* id is never mapped to an empty subscriber set.
C29_BroadcastIsolatesFailures ==
  /\ mgr.pc # "raised"
  /\ mgr.pc = "returned" =>
       /\ mgr.failed \cap mgr.conns = {}
       /\ ((mgr.at_call \cap mgr.conns) \ mgr.failed) \subseteq mgr.delivered
  /\ mgr.mapped => mgr.conns # {}

\* the preset file holds the whole of a payload, or does not exist
Complete(f) == f.written = f.len

\* C30: at every step of a save, also one that the process dies in or whose
\* write or rename fails, the preset file is the complete file the save found
\* or the complete file the save is to produce, never a part of a file; and
\* when a save has failed with an exception its temporary file is gone.
C30_AtomicWrite ==
  /\ fs.files.file \in {fs.old, fs.new}
  /\ Complete(fs.files.file)
  /\ fs.pc = "failed" => ~fs.files.temp.exists

\* a rename failed after the whole payload was in the temporary file: the
\* preset file of an earlier save is still there, the temporary file is not
C30_Witness ==
  /\ fs.pc = "failed"
  /\ fs.fault = "replace"
  /\ fs.old.exists
  /\ fs.files.file = fs.old
  /\ ~fs.files.temp.exists

\* C31: in shape mode the run's client is being closed or is closed only when
\* every request task created by the dispatcher has finished: no task is still
\* to start, waiting for a permit or in its HTTP call at that time.
C31_ClientOutlivesTasks ==
  (g.mode = "shape" /\ client \in {"closing", "closed"}) =>
    \A t \in Tasks : task[t].pc \in {"none", "finished", "discarded"}

\* C32: in shape mode the request tasks that were spawned and have not
\* finished (the set pending) are never more than user_count, also after an
\* iteration of the dispatcher that had several tokens to spend.
C32_PendingBounded ==
  (g.mode = "shape" /\ state.config.user_count >= 1) =>
    Cardinality(d.pending) <= state.config.user_count

\* the request tasks that hold a permit of the semaphore
HoldingPermit == {t \in Tasks : task[t].pc \in {"inflight", "doomed"}}

\* C32 (amended): in shape mode the dispatcher spawns request tasks only in an
\* iteration that found a free permit and no task waiting for one, and at
\* every moment at most user_count spawned tasks hold a permit; the tasks
\* spawned and not finished may be more than user_count.
C32_SpawnOnFreePermit ==
  [][(g'.mode = "shape" /\ state'.config.user_count >= 1) =>
       /\ d'.ntasks > d.ntasks =>
            (permits > 0 /\ \A t \in Tasks : task[t].pc # "waiting")
       /\ Cardinality(HoldingPermit)' <= state'.config.user_count]_vars

\* one iteration spent two tokens on a pool of one worker
C32_Witness ==
  /\ g.mode = "shape"
  /\ state.config.user_count = 1
  /\ Cardinality(d.pending) = 2
  /\ \A t \in d.pending : task[t].pc = "created"

\* C33: in a shape run with num_requests = N the request tasks created so far,
\* and the requests counted in request_count, are never more than N.
C33_CapNeverExceeded ==
  (g.mode = "shape" /\ state.config.num_requests # None) =>
    /\ d.ntasks <= state.config.num_requests
    /\ state.metrics.request_count <= state.config.num_requests

\* the cap is met while both tasks of one iteration are still pending
C33_Witness ==
  /\ g.mode = "shape"
  /\ state.config.num_requests = 2
  /\ d.ntasks = 2
  /\ state.metrics.request_count = 2
  /\ Cardinality(d.pending) = 2
  /\ d.pc = "d_sleep"

\* stop_test was accepted while the status was pending
StoppedWhilePending == <<"pending", "stopping">> \in g.edges

\* C34: after a stop accepted while the run was pending, the run is never
\* running, no request is counted, and the run ends with status stopped.
C34_PendingStopKept ==
  StoppedWhilePending =>
    /\ state.status # "running"
    /\ state.metrics.request_count = 0
    /\ d.pc = "done" => state.status = "stopped"

\* a connect or a disconnect changed the subscriber set of the test while the
\* broadcast was suspended at a send
Churned == mgr.touched \/ mgr.stale

\* C35: a broadcast during whose sends the subscriber set was changed does not
\* raise; when it has returned, every connection that was subscribed from the
\* call to the return has been sent the message.
C35_ChurnTolerated ==
  Churned =>
    /\ mgr.pc # "raised"
    /\ mgr.pc = "returned" => (mgr.stayed \ mgr.failed) \subseteq mgr.delivered

\* C36: a shape run that has passed the checks of execute_distribution_test
\* and entered its loop reaches a terminal status, when no stop is requested
\* and every request returns.
C36_ShapeRunEnds ==
  (g.mode = "shape" /\ d.pc = "d_sleep") ~> Terminal

\* C37: a step of the shape dispatcher that creates request tasks starts with
\* the status running and, when duration_seconds is set, with less than
\* duration_seconds elapsed, and ends with the status still running; a step
\* of the paced dispatcher that issues a request leaves the status running.
C37_NoSpawnOnStopCondition ==
  [][/\ (g.mode = "shape" /\ d'.ntasks > d.ntasks) =>
          /\ state.status = "running"
          /\ state'.status = "running"
          /\ state.config.duration_seconds # None =>
               clock - d.start < state.config.duration_seconds * TicksPerSecond
     /\ (g'.mode = "paced"
           /\ state'.metrics.request_count > state.metrics.request_count) =>
          state'.status = "running"]_vars

\* the loop was left on the duration before any task was created
C37_Witness ==
  /\ g.mode = "shape"
  /\ state.config.duration_seconds = 1
  /\ state.config.num_requests = 1
  /\ clock - d.start >= TicksPerSecond
  /\ d.pc = "d_aexit"
  /\ state.status = "running"
  /\ d.ntasks = 0

\* the capacity of the bucket at a rate, in the unit of the tokens
Capacity(current_rps) == Max(TicksPerSecond, 2 * current_rps * TicksPerSecond)

\* the update of the last iteration did as stated, and every task it created
\* took one token (the rest is dropped when the request cap is met)
UpdateAsStated ==
  /\ (tb.current_rps > 0 /\ tb.tick_delta > 0) =>
       (0 <= tb.after /\ tb.after <= Capacity(tb.current_rps))
  /\ (tb.current_rps <= 0 \/ tb.tick_delta <= 0) => tb.after = tb.before
  /\ tb.pc = "slept" =>
       \/ tb.tokens = tb.after - tb.spawned * TicksPerSecond
       \/ tb.tokens = 0 /\ tb.spawned * TicksPerSecond <= tb.after

\* C38 as stated: the update keeps 0 <= tokens <= max(1, 2 * current_rps) for
\* a positive rate and delta and changes nothing otherwise, every spawn takes
\* one token, and no iteration creates more than max(1, 2 * current_rps) tasks.
C38_BucketAsStated ==
  /\ UpdateAsStated
  /\ tb.spawned * TicksPerSecond <= Capacity(tb.current_rps)

\* C38 (amended): as stated, the bound on the tasks of one iteration being
\* that of an iteration whose tick delta was positive.
C38_Bucket ==
  /\ UpdateAsStated
  /\ tb.tick_delta > 0 => tb.spawned * TicksPerSecond <= Capacity(tb.current_rps)

\* an iteration filled the bucket to its capacity and spent all of it
C38_Witness ==
  /\ tb.pc = "slept"
  /\ tb.current_rps = 1
  /\ tb.tick_delta = 2
  /\ tb.before = 1
  /\ tb.after = 2
  /\ tb.spawned = 2
  /\ tb.tokens = 0

\* C39: in an external-driver run, whatever aggregated lines have been
\* parsed, success_count + failure_count <= request_count.
C39_ParsedCountersConsistent ==
  g.mode = "external" =>
    state.metrics.success_count + state.metrics.failure_count
      <= state.metrics.request_count

\* C40: every preset whose POST /presets has been answered is in the preset
\* file, and was in the listing of every GET /presets made after the answer,
\* also when the handlers of two creations overlapped.
C40_NoCreateLost ==
  /\ \A r \in Creates : ps.req[r].pc = "done" => r \in ps.file
  /\ ps.has_listed => ps.answered \subseteq ps.listed

====
